------------------------ MODULE DeliveryOutboxProofs ------------------------
(***************************************************************************)
(* What the outbox keeps, for any targets, any number of messages, crashes *)
(* and failed deliveries: a reply is received again only when its delivery *)
(* could not be recorded, a start delivers what was pending, and each      *)
(* target is served as a queue.                                            *)
(***************************************************************************)
EXTENDS DeliveryOutbox, FiniteSetTheorems, WellFoundedInduction, TLAPS

Elems(s) == {s[i] : i \in DOMAIN s}

(* Each key once.                                                           *)
Unique(s) == \A i, j \in DOMAIN s : Key(s[i]) = Key(s[j]) => i = j

Receipts == [index : Messages, target : Targets, message : Messages]

Preparing == {"commit", "prepare", "list"}

Sending == {"send", "record", "fail"}

(* What a worker has in hand, when so many messages were written and the    *)
(* run's services name this target.                                         *)
Handy(w, most, to) ==
  /\ w \in Workers
  /\ Unique(w.copy) /\ Unique(w.attempts)
  /\ Len(w.session) <= most
  /\ \A i \in DOMAIN w.todo : w.todo[i] \in DOMAIN w.session
  /\ w.todo # << >> => w.pc \in Preparing /\ to \in Targets

Types ==
  /\ setup \in Setups
  /\ messages \in Seq(Messages) /\ Len(messages) <= written
  /\ target \in Targets \cup {NoTarget}
  /\ outbox \in Seq(Entries) /\ Unique(outbox)
  /\ tracker \subseteq Keys
  /\ Handy(server, written, target) /\ Handy(back, written, target)
  /\ up \in BOOLEAN
  /\ written \in 0 .. MaxMessages
  /\ receipts \in Seq(Receipts)
  /\ unsure \in [Keys -> Nat]
  /\ crashes \in 0 .. MaxCrashes
  /\ failures \in 0 .. MaxFailures
  /\ rewrites \in 0 .. setup.rewrites

(* Where the two threads of control can stand.                              *)
Phases ==
  /\ ~ (HoldsRun(server) /\ HoldsRun(back))
  /\ back.pc \in {"ready", "commit"}
  /\ back.pc = "commit" => setup.background
  /\ server.pc \in {"turn", "commit", "read", "prepare"} => target \in Targets
  /\ server.pc \in Sending => server.attempts # << >>
  /\ ~ up => server.pc = "ready"

(* A copy of the outbox that is still to be used has what the outbox has.   *)
CopyIsFresh ==
  ~ setup.live /\ server.pc \in Preparing => Elems(server.copy) = Elems(outbox)

IsDelivered(k) == \E e \in Elems(outbox) : Key(e) = k /\ e.status = "delivered"

IsOpen(k) == \E e \in Elems(outbox) : Key(e) = k /\ e.status # "delivered"

(* What is to be sent is in the outbox and not recorded as delivered.       *)
AttemptsOpen == \A a \in Elems(server.attempts) : IsOpen(Key(a))

(* A receipt is recorded, about to be, or was one too many to record.       *)
Recording(k) == server.pc = "record" /\ Key(Current) = k

Granted(k) == IF IsDelivered(k) \/ Recording(k) THEN 1 ELSE 0

Accounted == \A k \in Keys : ReceiptsOf(k) <= unsure[k] + Granted(k)

(* What the start found due is delivered, or the start has it still before  *)
(* it: it is to be materialized, to be listed, or to be sent.               *)
StartKnows ==
  \A k \in server.due :
    /\ server.pc = "ready" => IsDelivered(k)
    /\ server.pc = "list" =>
         \/ IsDelivered(k) \/ IsOpen(k)
         \/ k[2] = target /\ k[1] \in Elems(server.todo)
    /\ server.pc \in {"deliver"} \cup Sending =>
         IsDelivered(k) \/ \E a \in Elems(server.attempts) : Key(a) = k

Safe == CopyIsFresh /\ AttemptsOpen /\ Accounted /\ StartKnows

Standing == Types /\ Phases

IInv == Standing /\ (NoStaleCopies => Safe)

(* The replies to one target wait in line, when the store hands out the     *)
(* objects it keeps: none is in the outbox, or delivered, before an earlier *)
(* one is; the outbox has them in order; and no thread of control passes    *)
(* one over.                                                                *)
KeysIn(s) == {Key(e) : e \in Elems(s)}

DoneIn(s) == {Key(e) : e \in {x \in Elems(s) : x.status = "delivered"}}

NoGap(K) == \A k \in K, i \in Messages : i < k[1] => << i, k[2] >> \in K

InOrder(s) ==
  \A p, q \in DOMAIN s : p < q /\ s[p].target = s[q].target => s[p].index < s[q].index

SkipsNone(todo, to, K) ==
  \A j \in DOMAIN todo, i \in Messages : i < todo[j] =>
    << i, to >> \in K \/ \E l \in DOMAIN todo : l < j /\ todo[l] = i

InTurn(s, K) ==
  \A j \in DOMAIN s, i \in Messages : i < s[j].index =>
    \/ << i, s[j].target >> \in K
    \/ \E l \in DOMAIN s : l < j /\ Key(s[l]) = << i, s[j].target >>

JustReceived ==
  server.pc = "record" =>
    receipts # << >> /\ Key(receipts[Len(receipts)]) = Key(Current)

InLine ==
  /\ NoGap(KeysIn(outbox)) /\ NoGap(DoneIn(outbox)) /\ InOrder(outbox)
  /\ tracker \subseteq DoneIn(outbox)
  /\ SkipsNone(server.todo, target, KeysIn(outbox))
  /\ SkipsNone(back.todo, target, KeysIn(outbox))
  /\ InTurn(server.attempts, DoneIn(outbox))
  /\ JustReceived

QInv == IInv /\ (setup.live => InLine)

-----------------------------------------------------------------------------
(* The elements at some places.  Those is a recursive function, and what it *)
(* computes is found by induction on how far it has come.                   *)

(* A set of numbers that is not empty has a least one: < is well founded.   *)
LEMMA Least ==
  ASSUME NEW T, T \subseteq Nat, T # {}
  PROVE  \E x \in T : \A y \in T : x <= y
<1> DEFINE R == {p \in Nat \X Nat : p[1] < p[2]}
<1>1. R = OpToRel(<, Nat)
  BY DEF OpToRel
<1>2. IsWellFoundedOn(R, Nat)
  BY <1>1, NatLessThanWellFounded
<1>3. PICK x \in T : \A y \in T : ~ (<< y, x >> \in R)
  BY <1>2, WFMin
<1>4. \A y \in T : << y, x >> \in Nat \X Nat /\ x \in Nat /\ y \in Nat
  BY <1>3
<1>5. \A y \in T : ~ (y < x)
  BY <1>3, <1>4
<1> QED
  BY <1>4, <1>5

(* A set that has 0, and the successor of each number it has, has them all. *)
LEMMA SetInduction ==
  ASSUME NEW T, 0 \in T, \A k \in Nat : k \in T => k + 1 \in T
  PROVE  Nat \subseteq T
<1> DEFINE U == Nat \ T
<1> SUFFICES ASSUME U # {} PROVE FALSE
  OBVIOUS
<1>1. PICK x \in U : \A y \in U : x <= y
  <2>1. U \subseteq Nat
    OBVIOUS
  <2> HIDE DEF U
  <2> QED
    BY <2>1, Least
<1>2. x \in Nat /\ x # 0
  BY <1>1
<1>3. x - 1 \in Nat /\ (x - 1) + 1 = x /\ ~ x <= x - 1
  BY <1>2
<1>4. x - 1 \in T
  BY <1>1, <1>3
<1>5. x \in T
  BY <1>3, <1>4
<1> QED
  BY <1>1, <1>5

Unfolds(f, s, chosen, n) ==
  f = [i \in 0 .. n |-> IF i = 0 THEN << >>
                        ELSE IF i \in chosen THEN Append(f[i - 1], s[i])
                        ELSE f[i - 1]]

UpTo(s, chosen, n) == CHOOSE f : Unfolds(f, s, chosen, n)

LEMMA ThoseUpTo ==
  ASSUME NEW s, NEW chosen
  PROVE  Those(s, chosen) = UpTo(s, chosen, Len(s))[Len(s)]
BY DEF Those, UpTo, Unfolds

LEMMA UnfoldsExists ==
  ASSUME NEW s, NEW chosen, NEW n \in Nat
  PROVE  \E f : Unfolds(f, s, chosen, n)
<1> DEFINE T == {k \in Nat : \E f : Unfolds(f, s, chosen, k)}
<1>1. 0 \in T
  <2>1. Unfolds([i \in 0 .. 0 |-> << >>], s, chosen, 0)
    BY DEF Unfolds
  <2> QED
    BY <2>1
<1>2. ASSUME NEW k \in Nat, k \in T PROVE k + 1 \in T
  <2>1. PICK f : Unfolds(f, s, chosen, k)
    BY <1>2
  <2> DEFINE m == k + 1
             v == IF m \in chosen THEN Append(f[k], s[m]) ELSE f[k]
             g == [i \in 0 .. m |-> IF i = m THEN v ELSE f[i]]
             h == [i \in 0 .. m |-> IF i = 0 THEN << >>
                                    ELSE IF i \in chosen THEN Append(g[i - 1], s[i])
                                    ELSE g[i - 1]]
  <2>2. ASSUME NEW i \in 0 .. m PROVE g[i] = h[i]
    <3>1. CASE i = m
      <4>1. i # 0 /\ i - 1 \in 0 .. m /\ i - 1 # m /\ i - 1 = k
        BY <3>1
      <4>2. g[i - 1] = f[k] /\ g[i] = v
        BY <3>1, <4>1
      <4> QED
        BY <3>1, <4>1, <4>2
    <3>2. CASE i # m /\ i # 0
      <4>1. i \in 0 .. k /\ i - 1 \in 0 .. m /\ i - 1 # m
        BY <3>2
      <4>2. g[i] = f[i] /\ g[i - 1] = f[i - 1]
        BY <3>2, <4>1
      <4>3. f[i] = IF i \in chosen THEN Append(f[i - 1], s[i]) ELSE f[i - 1]
        BY <2>1, <3>2, <4>1 DEF Unfolds
      <4> QED
        BY <3>2, <4>2, <4>3
    <3>3. CASE i = 0 /\ i # m
      <4>1. 0 \in 0 .. k
        OBVIOUS
      <4>2. f[0] = << >>
        BY <2>1, <4>1 DEF Unfolds
      <4> QED
        BY <3>3, <4>2
    <3> QED
      BY <3>1, <3>2, <3>3
  <2>3. g = h
    BY <2>2
  <2>4. Unfolds(g, s, chosen, m)
    BY <2>3 DEF Unfolds
  <2> QED
    BY <2>4
<1>3. Nat \subseteq T
  <2> HIDE DEF T
  <2> QED
    BY <1>1, <1>2, SetInduction
<1> QED
  BY <1>3

(* p tells for each element of t at which chosen place of s, none later     *)
(* than n, it stands; they stand in order, and none is left out.            *)
Locates(p, t, s, chosen, n) ==
  /\ p \in [1 .. Len(t) -> 1 .. n]
  /\ \A i \in 1 .. Len(t) : p[i] \in chosen /\ t[i] = s[p[i]]
  /\ \A i, j \in 1 .. Len(t) : i < j => p[i] < p[j]
  /\ \A j \in 1 .. n : j \in chosen => \E i \in 1 .. Len(t) : p[i] = j

LEMMA LocatesMore ==
  ASSUME NEW S, NEW s \in Seq(S), NEW chosen, NEW t \in Seq(S), NEW p,
         NEW n \in Nat, n + 1 <= Len(s), Locates(p, t, s, chosen, n)
  PROVE  LET u == IF n + 1 \in chosen THEN Append(t, s[n + 1]) ELSE t
         IN  u \in Seq(S) /\ \E q : Locates(q, u, s, chosen, n + 1)
<1> DEFINE m == n + 1
           k == Len(t)
           u == Append(t, s[m])
           q == [i \in 1 .. k + 1 |-> IF i = k + 1 THEN m ELSE p[i]]
<1>1. k \in Nat /\ m \in Nat /\ m \in 1 .. Len(s) /\ s[m] \in S
  OBVIOUS
<1>2. 1 .. n \subseteq 1 .. m /\ m \in 1 .. m /\ m \notin 1 .. n /\ 1 .. m = 1 .. n \cup {m}
  OBVIOUS
<1>3. CASE m \notin chosen
  <2>1. p \in [1 .. Len(t) -> 1 .. m]
    BY <1>2 DEF Locates
  <2>2. Locates(p, t, s, chosen, m)
    <3> HIDE DEF m
    <3> QED
      BY <1>2, <1>3, <2>1 DEF Locates
  <2> QED
    BY <1>3, <2>2
<1>4. CASE m \in chosen
  <2>1. u \in Seq(S) /\ Len(u) = k + 1 /\ u[k + 1] = s[m]
        /\ \A i \in 1 .. k : u[i] = t[i]
    BY <1>1
  <2>2. 1 .. k + 1 = 1 .. k \cup {k + 1} /\ k + 1 \notin 1 .. k
    BY <1>1
  <2> HIDE DEF u, k, m
  <2>3. q[k + 1] = m /\ \A i \in 1 .. k : q[i] = p[i] /\ p[i] \in 1 .. n
    BY <2>2 DEF Locates, k
  <2>4. q \in [1 .. k + 1 -> 1 .. m]
    BY <1>2, <2>2, <2>3
  <2> HIDE DEF q
  <2>5. \A i \in 1 .. k + 1 : q[i] \in chosen /\ u[i] = s[q[i]]
    BY <1>4, <2>1, <2>2, <2>3 DEF Locates, k
  <2>6. ASSUME NEW i \in 1 .. k + 1, NEW j \in 1 .. k + 1, i < j
        PROVE  q[i] < q[j]
    <3>1. i \in 1 .. k /\ q[i] = p[i] /\ p[i] \in 1 .. n
      BY <1>1, <2>3, <2>6
    <3>2. CASE j = k + 1
      BY <2>3, <3>1, <3>2 DEF m
    <3>3. CASE j # k + 1
      <4>1. j \in 1 .. k /\ q[j] = p[j]
        BY <2>2, <2>3, <3>3
      <4> QED
        BY <2>6, <3>1, <4>1 DEF Locates, k
    <3> QED
      BY <3>2, <3>3
  <2>7. \A j \in 1 .. m : j \in chosen => \E i \in 1 .. k + 1 : q[i] = j
    BY <1>2, <2>2, <2>3 DEF Locates, k
  <2>8. Locates(q, u, s, chosen, m)
    BY <2>1, <2>4, <2>5, <2>6, <2>7 DEF Locates
  <2> QED
    BY <1>4, <2>1, <2>8 DEF u, m
<1> QED
  BY <1>3, <1>4

LEMMA ThosePlaces ==
  ASSUME NEW S, NEW s \in Seq(S), NEW chosen
  PROVE  /\ Those(s, chosen) \in Seq(S)
         /\ \E p : Locates(p, Those(s, chosen), s, chosen, Len(s))
<1> DEFINE n == Len(s)
           f == UpTo(s, chosen, n)
           T == {k \in Nat : k <= n => /\ f[k] \in Seq(S)
                                       /\ \E p : Locates(p, f[k], s, chosen, k)}
<1>1. n \in Nat
  OBVIOUS
<1>2. Unfolds(f, s, chosen, n)
  BY <1>1, UnfoldsExists DEF UpTo
<1>3. Those(s, chosen) = f[n]
  BY ThoseUpTo
<1> HIDE DEF f, n
<1>4. f[0] = << >> /\ \A k \in 0 .. n - 1 :
        f[k + 1] = IF k + 1 \in chosen THEN Append(f[k], s[k + 1]) ELSE f[k]
  <2>1. f[0] = << >>
    BY <1>1, <1>2 DEF Unfolds
  <2>2. ASSUME NEW k \in 0 .. n - 1
        PROVE  f[k + 1] = IF k + 1 \in chosen THEN Append(f[k], s[k + 1]) ELSE f[k]
    <3>1. k + 1 \in 0 .. n /\ k + 1 # 0 /\ (k + 1) - 1 = k
      BY <1>1
    <3> QED
      BY <1>2, <3>1 DEF Unfolds
  <2> QED
    BY <2>1, <2>2
<1>5. 0 \in T
  <2>1. f[0] \in Seq(S) /\ Len(f[0]) = 0
    BY <1>4
  <2>2. Locates([i \in 1 .. 0 |-> 1], f[0], s, chosen, 0)
    BY <2>1 DEF Locates
  <2> QED
    BY <2>1, <2>2
<1>6. ASSUME NEW k \in Nat, k \in T PROVE k + 1 \in T
  <2> SUFFICES ASSUME k + 1 <= n
               PROVE  /\ f[k + 1] \in Seq(S)
                      /\ \E p : Locates(p, f[k + 1], s, chosen, k + 1)
    OBVIOUS
  <2>1. k <= n /\ k \in 0 .. n - 1
    BY <1>1
  <2>2. PICK p : Locates(p, f[k], s, chosen, k)
    BY <1>6, <2>1
  <2>3. f[k] \in Seq(S)
    BY <1>6, <2>1
  <2>4. k + 1 <= Len(s)
    BY <2>1 DEF n
  <2> DEFINE u == IF k + 1 \in chosen THEN Append(f[k], s[k + 1]) ELSE f[k]
  <2>5. u \in Seq(S) /\ \E q : Locates(q, u, s, chosen, k + 1)
    BY <2>2, <2>3, <2>4, LocatesMore
  <2>6. f[k + 1] = u
    BY <1>4, <2>1
  <2> QED
    BY <2>5, <2>6
<1>7. n \in T
  <2> HIDE DEF T
  <2>1. Nat \subseteq T
    BY <1>5, <1>6, SetInduction
  <2> QED
    BY <1>1, <2>1
<1> QED
  BY <1>1, <1>3, <1>7 DEF n

(* What is computed so far depends on what was looked at so far.            *)
LEMMA UnfoldsAgree ==
  ASSUME NEW s, NEW t, NEW c, NEW d, NEW n \in Nat, NEW m \in Nat, n <= m,
         NEW f, Unfolds(f, s, c, n), NEW g, Unfolds(g, t, d, m),
         \A i \in 1 .. n : s[i] = t[i] /\ (i \in c <=> i \in d)
  PROVE  f[n] = g[n]
<1> DEFINE T == {k \in Nat : k <= n => f[k] = g[k]}
<1>1. 0 \in T
  <2>1. 0 \in 0 .. n /\ 0 \in 0 .. m
    OBVIOUS
  <2>2. f[0] = << >> /\ g[0] = << >>
    BY <2>1 DEF Unfolds
  <2> QED
    BY <2>2
<1>2. ASSUME NEW k \in Nat, k \in T PROVE k + 1 \in T
  <2> SUFFICES ASSUME k + 1 <= n PROVE f[k + 1] = g[k + 1]
    OBVIOUS
  <2>1. /\ k + 1 \in 0 .. n /\ k + 1 \in 0 .. m /\ k + 1 # 0 /\ (k + 1) - 1 = k
        /\ k + 1 \in 1 .. n
    OBVIOUS
  <2>2. f[k] = g[k]
    BY <1>2
  <2>3. f[k + 1] = IF k + 1 \in c THEN Append(f[k], s[k + 1]) ELSE f[k]
    BY <2>1 DEF Unfolds
  <2>4. g[k + 1] = IF k + 1 \in d THEN Append(g[k], t[k + 1]) ELSE g[k]
    BY <2>1 DEF Unfolds
  <2> QED
    BY <2>1, <2>2, <2>3, <2>4
<1>3. Nat \subseteq T
  <2> HIDE DEF T
  <2> QED
    BY <1>1, <1>2, SetInduction
<1> QED
  BY <1>3

LEMMA ThoseAppend ==
  ASSUME NEW S, NEW s \in Seq(S), NEW e \in S, NEW c, NEW d,
         \A i \in DOMAIN s : i \in c <=> i \in d
  PROVE  Those(Append(s, e), d) =
           IF Len(s) + 1 \in d THEN Append(Those(s, c), e) ELSE Those(s, c)
<1> DEFINE n == Len(s)
           m == n + 1
           t == Append(s, e)
           f == UpTo(s, c, n)
           g == UpTo(t, d, m)
<1>1. /\ n \in Nat /\ m \in Nat /\ n <= m /\ Len(t) = m /\ t[m] = e
      /\ DOMAIN s = 1 .. n /\ \A i \in 1 .. n : s[i] = t[i]
  OBVIOUS
<1>2. Unfolds(f, s, c, n) /\ Unfolds(g, t, d, m)
  BY <1>1, UnfoldsExists DEF UpTo
<1>3. Those(s, c) = f[n] /\ Those(t, d) = g[m]
  BY <1>1, ThoseUpTo
<1> HIDE DEF f, g, t, n
<1>4. f[n] = g[n]
  BY <1>1, <1>2, UnfoldsAgree
<1>5. g[m] = IF m \in d THEN Append(g[n], t[m]) ELSE g[n]
  <2>1. m \in 0 .. m /\ m # 0 /\ m - 1 = n
    BY <1>1
  <2> QED
    BY <1>2, <2>1 DEF Unfolds
<1> QED
  BY <1>1, <1>3, <1>4, <1>5 DEF t, n

(* A set of numbers with no gap below any of them is an interval.           *)
LEMMA NoGapInterval ==
  ASSUME NEW m \in Nat, NEW D, D \subseteq 1 .. m,
         \A j \in D : \A i \in 1 .. m : i < j => i \in D
  PROVE  /\ IsFiniteSet(D) /\ Cardinality(D) \in Nat
         /\ D = 1 .. Cardinality(D)
<1>1. PICK n \in 1 .. m + 1 : n \notin D /\ \A i \in 1 .. m : i < n => i \in D
  <2> DEFINE T == 1 .. m + 1 \ D
  <2>1. T \subseteq Nat /\ m + 1 \in T
    OBVIOUS
  <2>2. PICK n \in T : \A y \in T : n <= y
    <3> HIDE DEF T
    <3> QED
      BY <2>1, Least
  <2>3. \A i \in 1 .. m : i < n => i \in D
    <3> SUFFICES ASSUME NEW i \in 1 .. m, i < n, i \notin D PROVE FALSE
      OBVIOUS
    <3>1. i \in T
      OBVIOUS
    <3>2. n <= i /\ n \in Nat
      BY <2>1, <2>2, <3>1
    <3> QED
      BY <3>2
  <2> QED
    BY <2>2, <2>3
<1>2. D = 1 .. n - 1
  <2>1. ASSUME NEW i \in D PROVE i \in 1 .. n - 1
    <3>1. i \in 1 .. m /\ n \in Nat /\ n \in 1 .. m + 1 /\ i # n
      BY <1>1
    <3>2. ~ n < i
      <4> SUFFICES ASSUME n < i PROVE FALSE
        OBVIOUS
      <4>1. n \in 1 .. m
        BY <3>1
      <4> QED
        BY <1>1, <4>1
    <3> QED
      BY <3>1, <3>2
  <2>2. \A i \in 1 .. n - 1 : i \in 1 .. m /\ i < n
    BY <1>1
  <2> QED
    BY <1>1, <2>1, <2>2
<1>3. IsFiniteSet(1 .. n - 1) /\ Cardinality(1 .. n - 1) = n - 1
  <2>1. 1 \in Int /\ n - 1 \in Int
    BY <1>1
  <2>2. IsFiniteSet(1 .. n - 1)
    BY <2>1, FS_Interval
  <2>3. Cardinality(1 .. n - 1) = IF 1 > n - 1 THEN 0 ELSE (n - 1) - 1 + 1
    BY <2>1, FS_Interval
  <2> QED
    BY <1>1, <2>2, <2>3
<1> QED
  BY <1>1, <1>2, <1>3
-----------------------------------------------------------------------------
(* The entries of an outbox.                                                *)

LEMMA EntryFields ==
  ASSUME NEW e \in Entries
  PROVE  /\ Key(e) \in Keys /\ Key(e)[1] = e.index /\ Key(e)[2] = e.target
         /\ e.index \in Messages /\ e.target \in Targets
         /\ e.message \in Messages /\ e.status \in Statuses
BY DEF Entries, Key, Keys, Messages

(* An entry is found by its key.                                            *)
LEMMA EntryFound ==
  ASSUME NEW s \in Seq(Entries), NEW k
  PROVE  /\ HasKey(s, k) <=> \E e \in Elems(s) : Key(e) = k
         /\ HasKey(s, k) => EntryOf(s, k) \in Elems(s) /\ Key(EntryOf(s, k)) = k
BY DEF HasKey, EntryOf, Elems

LEMMA ElemsTypes == ASSUME NEW S, NEW s \in Seq(S) PROVE Elems(s) \subseteq S
BY DEF Elems

LEMMA OnePerKey ==
  ASSUME NEW s \in Seq(Entries), Unique(s), NEW a \in Elems(s), NEW b \in Elems(s),
         Key(a) = Key(b)
  PROVE  a = b
BY DEF Unique, Elems

LEMMA AppendElems ==
  ASSUME NEW S, NEW s \in Seq(S), NEW e \in S
  PROVE  Append(s, e) \in Seq(S) /\ Elems(Append(s, e)) = Elems(s) \cup {e}
<1> DEFINE t == Append(s, e)
           n == Len(s)
<1>1. n \in Nat /\ t \in Seq(S) /\ Len(t) = n + 1 /\ t[n + 1] = e
      /\ \A i \in 1 .. n : t[i] = s[i]
  OBVIOUS
<1>2. DOMAIN s = 1 .. n /\ DOMAIN t = 1 .. n + 1
      /\ 1 .. n + 1 = 1 .. n \cup {n + 1}
  BY <1>1
<1> HIDE DEF t, n
<1>3. Elems(t) = Elems(s) \cup {e}
  BY <1>1, <1>2 DEF Elems
<1> QED
  BY <1>1, <1>3 DEF t

LEMMA TailElems ==
  ASSUME NEW S, NEW s \in Seq(S), s # << >>
  PROVE  /\ Head(s) \in Elems(s) /\ Tail(s) \in Seq(S)
         /\ Elems(s) = {Head(s)} \cup Elems(Tail(s))
<1> DEFINE t == Tail(s)
           n == Len(s)
<1>1. n \in Nat /\ n # 0 /\ t \in Seq(S) /\ Len(t) = n - 1
      /\ Head(s) = s[1] /\ \A i \in 1 .. n - 1 : t[i] = s[i + 1]
  OBVIOUS
<1>2. DOMAIN s = 1 .. n /\ DOMAIN t = 1 .. n - 1 /\ 1 \in 1 .. n
  BY <1>1
<1>3. \A i \in 1 .. n - 1 : i + 1 \in 1 .. n
  BY <1>1
<1>4. \A i \in 1 .. n : i = 1 \/ (i - 1 \in 1 .. n - 1 /\ (i - 1) + 1 = i)
  BY <1>1
<1> HIDE DEF t, n
<1>5. Elems(t) \subseteq Elems(s)
  BY <1>1, <1>2, <1>3 DEF Elems
<1>6. Elems(s) \subseteq {Head(s)} \cup Elems(t)
  <2>1. \A i \in 1 .. n : s[i] = Head(s) \/ \E j \in 1 .. n - 1 : s[i] = t[j]
    BY <1>1, <1>4
  <2> QED
    BY <1>2, <2>1 DEF Elems
<1>7. Head(s) \in Elems(s)
  BY <1>1, <1>2 DEF Elems
<1> QED
  BY <1>1, <1>5, <1>6, <1>7 DEF t

LEMMA TailUnique ==
  ASSUME NEW s \in Seq(Entries), s # << >>, Unique(s)
  PROVE  Unique(Tail(s)) /\ \A e \in Elems(Tail(s)) : Key(e) # Key(Head(s))
<1> DEFINE t == Tail(s)
           n == Len(s)
<1>1. n \in Nat /\ n # 0 /\ Len(t) = n - 1
      /\ Head(s) = s[1] /\ \A i \in 1 .. n - 1 : t[i] = s[i + 1]
  OBVIOUS
<1>2. DOMAIN s = 1 .. n /\ DOMAIN t = 1 .. n - 1 /\ 1 \in 1 .. n
  BY <1>1
<1>3. \A i \in 1 .. n - 1 : i + 1 \in 1 .. n /\ i + 1 # 1
  BY <1>1
<1>4. \A i, j \in 1 .. n - 1 : i + 1 = j + 1 => i = j
  BY <1>1
<1> HIDE DEF t, n
<1>5. Unique(t)
  <2> SUFFICES ASSUME NEW i \in 1 .. n - 1, NEW j \in 1 .. n - 1, Key(t[i]) = Key(t[j])
               PROVE  i = j
    BY <1>2 DEF Unique
  <2>1. t[i] = s[i + 1] /\ t[j] = s[j + 1] /\ i + 1 \in DOMAIN s /\ j + 1 \in DOMAIN s
    BY <1>1, <1>2, <1>3
  <2>2. i + 1 = j + 1
    BY <2>1 DEF Unique
  <2> QED
    BY <1>4, <2>2
<1>6. \A i \in 1 .. n - 1 : Key(t[i]) # Key(Head(s))
  BY <1>1, <1>2, <1>3 DEF Unique
<1>7. \A e \in Elems(t) : Key(e) # Key(Head(s))
  BY <1>2, <1>6 DEF Elems
<1> QED
  BY <1>5, <1>7 DEF t

(* What upsertOutbox leaves.                                                *)
LEMMA WithEntryKeeps ==
  ASSUME NEW s \in Seq(Entries), Unique(s), NEW e \in Entries
  PROVE  /\ WithEntry(s, e) \in Seq(Entries) /\ Unique(WithEntry(s, e))
         /\ Elems(WithEntry(s, e)) = {x \in Elems(s) : Key(x) # Key(e)} \cup {e}
<1> DEFINE t == WithEntry(s, e)
<1>1. CASE HasKey(s, Key(e))
  <2>1. t = [i \in DOMAIN s |-> IF Key(s[i]) = Key(e) THEN e ELSE s[i]]
    BY <1>1 DEF WithEntry
  <2>2. DOMAIN t = DOMAIN s /\ DOMAIN s = 1 .. Len(s) /\ Len(s) \in Nat
    BY <2>1
  <2>3. \A i \in DOMAIN s : t[i] = (IF Key(s[i]) = Key(e) THEN e ELSE s[i])
                            /\ t[i] \in Entries /\ Key(t[i]) = Key(s[i])
    BY <2>1
  <2> HIDE DEF t
  <2>4. t \in [1 .. Len(s) -> Entries]
    BY <2>1, <2>2, <2>3
  <2>5. t \in Seq(Entries)
    BY <2>2, <2>4
  <2>6. Unique(t)
    BY <2>2, <2>3 DEF Unique
  <2>7. Elems(t) \subseteq {x \in Elems(s) : Key(x) # Key(e)} \cup {e}
    BY <2>2, <2>3 DEF Elems
  <2>8. {x \in Elems(s) : Key(x) # Key(e)} \subseteq Elems(t)
    BY <2>2, <2>3 DEF Elems
  <2>9. e \in Elems(t)
    BY <1>1, <2>2, <2>3 DEF HasKey, Elems
  <2> QED
    BY <2>5, <2>6, <2>7, <2>8, <2>9 DEF t
<1>2. CASE ~ HasKey(s, Key(e))
  <2>1. t = Append(s, e)
    BY <1>2 DEF WithEntry
  <2>2. \A i \in DOMAIN s : Key(s[i]) # Key(e)
    BY <1>2 DEF HasKey
  <2>3. Unique(t)
    <3> DEFINE n == Len(s)
    <3>1. n \in Nat /\ DOMAIN s = 1 .. n /\ DOMAIN t = 1 .. n \cup {n + 1}
          /\ t[n + 1] = e /\ \A i \in 1 .. n : t[i] = s[i]
      BY <2>1
    <3> HIDE DEF n, t
    <3> QED
      BY <2>2, <3>1 DEF Unique
  <2>4. \A x \in Elems(s) : Key(x) # Key(e)
    BY <2>2 DEF Elems
  <2> QED
    BY <2>1, <2>3, <2>4, AppendElems
<1> QED
  BY <1>1, <1>2

(* What markAssistantDelivery leaves.                                       *)
LEMMA MarkKeeps ==
  ASSUME NEW s \in Seq(Entries), Unique(s), NEW k, NEW st \in Statuses
  PROVE  /\ Mark(s, k, st) \in Seq(Entries) /\ Unique(Mark(s, k, st))
         /\ Elems(Mark(s, k, st)) =
              {IF Key(x) = k THEN [x EXCEPT !.status = st] ELSE x : x \in Elems(s)}
<1> DEFINE t == Mark(s, k, st)
           M(x) == IF Key(x) = k THEN [x EXCEPT !.status = st] ELSE x
<1>1. \A x \in Entries : M(x) \in Entries /\ Key(M(x)) = Key(x)
  BY DEF Entries, Key
<1>2. DOMAIN t = DOMAIN s /\ DOMAIN s = 1 .. Len(s) /\ Len(s) \in Nat
      /\ \A i \in DOMAIN s : t[i] = M(s[i]) /\ s[i] \in Entries
  BY DEF Mark
<1>3. t = [i \in DOMAIN t |-> t[i]]
  BY DEF Mark
<1> HIDE DEF t, M
<1>4. t \in [1 .. Len(s) -> Entries]
  BY <1>1, <1>2, <1>3
<1>5. t \in Seq(Entries)
  BY <1>2, <1>4
<1>6. Unique(t)
  BY <1>1, <1>2 DEF Unique
<1>7. Elems(t) = {M(x) : x \in Elems(s)}
  BY <1>2 DEF Elems
<1> QED
  BY <1>5, <1>6, <1>7 DEF t, M

LEMMA ShuffledKeeps ==
  ASSUME NEW s \in Seq(Entries), NEW t \in Shuffled(s)
  PROVE  t \in Seq(Entries) /\ Elems(t) = Elems(s) /\ (Unique(s) => Unique(t))
<1>1. PICK p \in Bijection(DOMAIN s, DOMAIN s) : t = [i \in DOMAIN s |-> s[p[i]]]
  BY DEF Shuffled
<1>2. /\ p \in [DOMAIN s -> DOMAIN s]
      /\ \A i, j \in DOMAIN s : p[i] = p[j] => i = j
      /\ \A j \in DOMAIN s : \E i \in DOMAIN s : p[i] = j
  BY DEF Bijection, Injection, Surjection, IsInjective
<1>3. DOMAIN t = DOMAIN s /\ DOMAIN s = 1 .. Len(s) /\ Len(s) \in Nat
      /\ \A i \in DOMAIN s : t[i] = s[p[i]] /\ p[i] \in DOMAIN s /\ s[p[i]] \in Entries
  BY <1>1, <1>2
<1>4. t \in [1 .. Len(s) -> Entries]
  BY <1>1, <1>3
<1>5. t \in Seq(Entries)
  BY <1>3, <1>4
<1>6. Elems(t) = Elems(s)
  BY <1>2, <1>3 DEF Elems
<1>7. Unique(s) => Unique(t)
  BY <1>2, <1>3 DEF Unique
<1> QED
  BY <1>5, <1>6, <1>7

LEMMA SortedKeeps ==
  ASSUME NEW s \in Seq(Entries), NEW t \in Sorted(s)
  PROVE  t \in Seq(Entries) /\ Elems(t) = Elems(s) /\ (Unique(s) => Unique(t))
BY ShuffledKeeps DEF Sorted

LEMMA ThoseKeep ==
  ASSUME NEW s \in Seq(Entries), NEW chosen
  PROVE  /\ Those(s, chosen) \in Seq(Entries)
         /\ Elems(Those(s, chosen)) = {s[i] : i \in (DOMAIN s) \cap chosen}
         /\ Unique(s) => Unique(Those(s, chosen))
<1> DEFINE t == Those(s, chosen)
<1>1. t \in Seq(Entries) /\ \E p : Locates(p, t, s, chosen, Len(s))
  BY ThosePlaces
<1> HIDE DEF t
<1>2. PICK p : Locates(p, t, s, chosen, Len(s))
  BY <1>1
<1>3. DOMAIN t = 1 .. Len(t) /\ DOMAIN s = 1 .. Len(s)
  BY <1>1
<1>4. \A i \in DOMAIN t : p[i] \in (DOMAIN s) \cap chosen /\ t[i] = s[p[i]]
  BY <1>2, <1>3 DEF Locates
<1>5. \A j \in (DOMAIN s) \cap chosen : \E i \in DOMAIN t : p[i] = j
  BY <1>2, <1>3 DEF Locates
<1>6. Elems(t) = {s[i] : i \in (DOMAIN s) \cap chosen}
  BY <1>4, <1>5 DEF Elems
<1>7. Unique(s) => Unique(t)
  <2>1. \A i, j \in DOMAIN t : i < j => p[i] < p[j] /\ p[i] # p[j]
    BY <1>2, <1>3, <1>4 DEF Locates
  <2>2. \A i, j \in DOMAIN t : i < j \/ j < i \/ i = j
    BY <1>1, <1>3
  <2>3. \A i, j \in DOMAIN t : p[i] = p[j] => i = j
    BY <2>1, <2>2
  <2> QED
    BY <1>4, <2>3 DEF Unique
<1> QED
  BY <1>1, <1>6, <1>7 DEF t

LEMMA EmptyUnique ==
  Unique(<< >>) /\ Elems(<< >>) = {} /\ \A S : << >> \in Seq(S)
BY DEF Unique, Elems

-----------------------------------------------------------------------------
(* Types.                                                                   *)

LEMMA Fields ==
  ASSUME Types
  PROVE  /\ setup.live \in BOOLEAN /\ setup.background \in BOOLEAN
         /\ setup.targets \subseteq Targets /\ setup.rewrites \in 0 .. 1
         /\ written \in Nat /\ written <= MaxMessages /\ MaxMessages \in Nat
         /\ NoTarget \notin Targets
BY OutboxAssumption DEF Types

LEMMA WorkerFields ==
  ASSUME NEW w \in Workers
  PROVE  /\ w.session \in Seq(Messages) /\ w.todo \in Seq(Messages)
         /\ w.copy \in Seq(Entries) /\ w.attempts \in Seq(Entries)
         /\ w.due \in SUBSET Keys
BY DEF Workers

LEMMA FreeFields ==
  /\ Free \in Workers
  /\ Free.pc = "ready" /\ Free.session = << >> /\ Free.todo = << >>
  /\ Free.copy = << >> /\ Free.attempts = << >> /\ Free.due = {}
BY DEF Free, Workers

(* A worker that begins at p with nothing in hand.                          *)
LEMMA FreeHandy ==
  ASSUME NEW p \in {"ready", "turn", "start"}, NEW n \in Nat, NEW to
  PROVE  LET w == [Free EXCEPT !.pc = p] IN
           /\ Handy(w, n, to) /\ w.pc = p /\ w.due = {}
           /\ w.attempts = << >> /\ w.todo = << >>
<1> DEFINE w == [Free EXCEPT !.pc = p]
<1>1. w \in Workers
  BY FreeFields DEF Workers
<1>2. /\ w.pc = p /\ w.session = << >> /\ w.todo = << >> /\ w.copy = << >>
      /\ w.attempts = << >> /\ w.due = {}
  BY DEF Free
<1> HIDE DEF w
<1>3. Len(w.session) = 0 /\ DOMAIN w.todo = {}
  BY <1>2
<1>4. Handy(w, n, to)
  BY <1>1, <1>2, <1>3, EmptyUnique DEF Handy
<1> QED
  BY <1>2, <1>4 DEF w

LEMMA FreeItself == Free = [Free EXCEPT !.pc = "ready"]
BY DEF Free

LEMMA HandyLater ==
  ASSUME NEW w, NEW n \in Nat, NEW m \in Nat, NEW to, NEW into,
         Handy(w, n, to), n <= m, to \in Targets => into \in Targets
  PROVE  Handy(w, m, into)
<1>1. Len(w.session) \in Nat
  BY DEF Handy, Workers
<1> QED
  BY <1>1 DEF Handy

LEMMA ReadKeeps ==
  ASSUME Types, NEW read \in ReadOutbox
  PROVE  /\ read \in Seq(Entries) /\ Unique(read)
         /\ ~ setup.live => Elems(read) = Elems(outbox)
<1>1. CASE setup.live
  BY <1>1, EmptyUnique DEF ReadOutbox
<1>2. CASE ~ setup.live
  <2>1. read \in Shuffled(outbox)
    BY <1>2 DEF ReadOutbox
  <2> QED
    BY <1>2, <2>1, ShuffledKeeps DEF Types
<1> QED
  BY <1>1, <1>2

(* The places of a session.                                                 *)
LEMMA IndexesTypes ==
  ASSUME NEW s \in Seq(Messages), NEW n \in Nat, Len(s) <= n, n <= MaxMessages,
         MaxMessages \in Nat
  PROVE  /\ Indexes(s) \in Seq(Messages) /\ Len(Indexes(s)) = Len(s)
         /\ Elems(Indexes(s)) = DOMAIN s
         /\ \A i \in DOMAIN Indexes(s) : Indexes(s)[i] = i /\ i \in DOMAIN s
<1>1. Len(s) \in Nat /\ DOMAIN s = 1 .. Len(s)
  OBVIOUS
<1>2. 1 .. Len(s) \subseteq Messages
  BY <1>1 DEF Messages
<1>3. Indexes(s) \in [1 .. Len(s) -> Messages]
  BY <1>1, <1>2 DEF Indexes
<1>4. DOMAIN Indexes(s) = DOMAIN s /\ \A i \in DOMAIN s : Indexes(s)[i] = i
  BY DEF Indexes
<1>5. Indexes(s) \in Seq(Messages)
  BY <1>1, <1>3
<1>6. Len(Indexes(s)) = Len(s)
  BY <1>1, <1>4, <1>5
<1> QED
  BY <1>4, <1>5, <1>6 DEF Elems

LEMMA PendingTypes ==
  ASSUME NEW s \in Seq(Messages), NEW n \in Nat, Len(s) <= n, n <= MaxMessages,
         MaxMessages \in Nat
  PROVE  /\ Pending(s) \in Seq(Messages)
         /\ \A i \in DOMAIN Pending(s) : Pending(s)[i] \in DOMAIN s
<1> DEFINE t == Pending(s)
           x == Indexes(s)
<1>1. x \in Seq(Messages) /\ Len(x) = Len(s)
      /\ \A i \in DOMAIN x : x[i] = i /\ i \in DOMAIN s
  BY IndexesTypes
<1>2. t = Those(x, Undelivered(s))
  BY DEF Pending
<1> HIDE DEF t, x
<1>3. t \in Seq(Messages) /\ \E p : Locates(p, t, x, Undelivered(s), Len(x))
  BY <1>1, <1>2, ThosePlaces
<1>4. PICK p : Locates(p, t, x, Undelivered(s), Len(x))
  BY <1>3
<1>5. DOMAIN t = 1 .. Len(t) /\ DOMAIN x = 1 .. Len(x)
  BY <1>1, <1>3
<1>6. \A i \in DOMAIN t : p[i] \in DOMAIN x /\ t[i] = x[p[i]]
  BY <1>4, <1>5 DEF Locates
<1> QED
  BY <1>1, <1>3, <1>6 DEF t

LEMMA KnownTypes ==
  ASSUME Types, NEW w, Handy(w, written, target)
  PROVE  Known(w) \in Seq(Entries) /\ Unique(Known(w))
BY WorkerFields DEF Types, Handy, Known

LEMMA AttemptsKeep ==
  ASSUME Types, NEW w, Handy(w, written, target)
  PROVE  /\ Attempts(w) \in Seq(Entries) /\ Unique(Attempts(w))
         /\ \A a \in Elems(Attempts(w)) : a \in Elems(Known(w)) /\ Retryable(a)
<1> DEFINE s == Known(w)
           chosen == AboutPending(w) \cap RetryablePlaces(s)
<1>1. s \in Seq(Entries) /\ Unique(s)
  BY KnownTypes
<1>2. \A i \in (DOMAIN s) \cap chosen : s[i] \in Elems(s) /\ Retryable(s[i])
  BY DEF RetryablePlaces, Elems
<1>3. Attempts(w) = Those(s, chosen)
  BY DEF Attempts
<1> HIDE DEF s, chosen
<1> QED
  BY <1>1, <1>2, <1>3, ThoseKeep DEF s

(* The retry of the start lists what is not delivered.                      *)
LEMMA ListedKeep ==
  ASSUME Types, NEW attempts \in Sorted(Those(outbox, RetryablePlaces(outbox)))
  PROVE  /\ attempts \in Seq(Entries) /\ Unique(attempts)
         /\ Elems(attempts) = {e \in Elems(outbox) : Retryable(e)}
<1> DEFINE t == Those(outbox, RetryablePlaces(outbox))
<1>1. t \in Seq(Entries) /\ Unique(t)
      /\ Elems(t) = {outbox[i] : i \in (DOMAIN outbox) \cap RetryablePlaces(outbox)}
  BY ThoseKeep DEF Types
<1>2. {outbox[i] : i \in (DOMAIN outbox) \cap RetryablePlaces(outbox)}
        = {e \in Elems(outbox) : Retryable(e)}
  BY DEF Elems, RetryablePlaces
<1> HIDE DEF t
<1> QED
  BY <1>1, <1>2, SortedKeeps DEF t

(* What a turn leaves, whoever runs it.                                     *)
LEMMA TurnEndsKeeps ==
  ASSUME Types, NEW w, TurnEnds(w)
  PROVE  /\ written' \in 0 .. MaxMessages /\ written <= written'
         /\ rewrites' \in 0 .. setup.rewrites
         /\ Handy(w, written', target)
         /\ w.pc = "commit" /\ w.attempts = << >> /\ w.due = {}
         /\ ~ setup.live => Elems(w.copy) = Elems(outbox)
<1>1. PICK new \in NewMessages :
        \E rewritten, completed \in BOOLEAN, read \in ReadOutbox :
          LET session == History(rewritten) \o new IN
            /\ rewritten => rewrites < setup.rewrites /\ messages # << >>
            /\ rewrites' = IF rewritten THEN rewrites + 1 ELSE rewrites
            /\ written' = written + Len(new)
            /\ w = [Free EXCEPT !.pc = "commit", !.session = session, !.copy = read,
                                !.todo = IF completed /\ target # NoTarget
                                         THEN Indexes(session) ELSE << >>]
  BY DEF TurnEnds
<1>2. PICK rewritten \in BOOLEAN, completed \in BOOLEAN, read \in ReadOutbox :
          LET session == History(rewritten) \o new IN
            /\ rewritten => rewrites < setup.rewrites /\ messages # << >>
            /\ rewrites' = IF rewritten THEN rewrites + 1 ELSE rewrites
            /\ written' = written + Len(new)
            /\ w = [Free EXCEPT !.pc = "commit", !.session = session, !.copy = read,
                                !.todo = IF completed /\ target # NoTarget
                                         THEN Indexes(session) ELSE << >>]
  BY <1>1
<1> DEFINE session == History(rewritten) \o new
           todo == IF completed /\ target # NoTarget THEN Indexes(session) ELSE << >>
<1>3. written \in Nat /\ written <= MaxMessages /\ MaxMessages \in Nat
  BY Fields
<1>4. new \in Seq(Messages) /\ written + Len(new) <= MaxMessages
  <2>1. PICK n \in 0 .. MaxMessages - written : new = [i \in 1 .. n |-> written + i]
    BY DEF NewMessages
  <2>2. n \in Nat /\ \A i \in 1 .. n : written + i \in Messages
    BY <1>3, <2>1 DEF Messages
  <2>3. new \in [1 .. n -> Messages] /\ DOMAIN new = 1 .. n
    BY <2>1, <2>2
  <2>4. new \in Seq(Messages)
    BY <2>2, <2>3
  <2>5. Len(new) = n
    BY <2>2, <2>3, <2>4
  <2> QED
    BY <1>3, <2>1, <2>4, <2>5
<1>5. Len(new) \in Nat
  BY <1>4
<1>6. written' \in 0 .. MaxMessages /\ written <= written' /\ written' \in Nat
  BY <1>2, <1>3, <1>4, <1>5
<1>7. rewrites' \in 0 .. setup.rewrites
  <2>1. setup.rewrites \in Nat /\ rewrites \in Nat /\ rewrites <= setup.rewrites
    BY Fields DEF Types
  <2> QED
    BY <1>2, <2>1
<1>8. History(rewritten) \in Seq(Messages) /\ Len(History(rewritten)) <= written
  <2>1. messages \in Seq(Messages) /\ Len(messages) <= written
    BY DEF Types
  <2>2. CASE rewritten
    <3>1. messages # << >>
      BY <1>2, <2>2
    <3>2. Tail(messages) \in Seq(Messages) /\ Len(Tail(messages)) = Len(messages) - 1
          /\ Len(messages) \in Nat
      BY <2>1, <3>1
    <3> QED
      BY <1>3, <2>1, <2>2, <3>2 DEF History
  <2>3. CASE ~ rewritten
    BY <2>1, <2>3 DEF History
  <2> QED
    BY <2>2, <2>3
<1>9. session \in Seq(Messages) /\ Len(session) <= written'
  <2> DEFINE h == History(rewritten)
  <2>1. h \in Seq(Messages) /\ Len(h) <= written
    BY <1>8
  <2> HIDE DEF h
  <2>2. h \o new \in Seq(Messages)
    BY <1>4, <2>1
  <2>3. Len(h \o new) = Len(h) + Len(new) /\ Len(h) \in Nat
    BY <1>4, <2>1
  <2>4. Len(h) + Len(new) <= written + Len(new)
    BY <1>3, <1>5, <2>1, <2>3
  <2>5. written' = written + Len(new)
    BY <1>2
  <2>6. Len(h \o new) <= written'
    BY <2>3, <2>4, <2>5
  <2> QED
    BY <2>2, <2>6 DEF h
<1>10. w = [Free EXCEPT !.pc = "commit", !.session = session, !.copy = read, !.todo = todo]
  BY <1>2
<1> HIDE DEF session, todo
<1>11. /\ todo \in Seq(Messages)
       /\ \A i \in DOMAIN todo : todo[i] \in DOMAIN session
       /\ todo # << >> => target \in Targets
  <2>1. CASE completed /\ target # NoTarget
    <3>1. todo = Indexes(session)
      BY <2>1 DEF todo, session
    <3>2. target \in Targets
      BY <2>1 DEF Types
    <3>3. written' <= MaxMessages
      BY <1>3, <1>6
    <3>4. /\ Indexes(session) \in Seq(Messages)
          /\ \A i \in DOMAIN Indexes(session) : Indexes(session)[i] = i /\ i \in DOMAIN session
      BY <1>3, <1>6, <1>9, <3>3, IndexesTypes
    <3> QED
      BY <3>1, <3>2, <3>4
  <2>2. CASE ~ (completed /\ target # NoTarget)
    <3>1. todo = << >>
      BY <2>2 DEF todo
    <3> QED
      BY <3>1
  <2> QED
    BY <2>1, <2>2
<1>12. /\ w.pc = "commit" /\ w.session = session /\ w.copy = read /\ w.todo = todo
       /\ w.attempts = << >> /\ w.due = {}
  BY <1>10 DEF Free
<1>13. read \in Seq(Entries) /\ Unique(read)
       /\ (~ setup.live => Elems(read) = Elems(outbox))
  BY ReadKeeps
<1>14. w \in Workers
  BY <1>9, <1>10, <1>11, <1>13, FreeFields DEF Workers
<1>15. Handy(w, written', target)
  BY <1>9, <1>11, <1>12, <1>13, <1>14, EmptyUnique DEF Handy, Preparing
<1> QED
  BY <1>6, <1>7, <1>12, <1>13, <1>15

(* What is written to the outbox for the next message.                      *)
LEMMA EntryToWriteKeeps ==
  ASSUME Types, NEW w, Handy(w, written, target), w.todo # << >>
  PROVE  LET e == EntryToWrite(w) IN
           /\ e \in Entries /\ Key(e) = << Head(w.todo), target >>
           /\ e \in Elems(Known(w)) \/ e.status = "pending"
           /\ (\E x \in Elems(Known(w)) : Key(x) = Key(e)) => e \in Elems(Known(w))
<1> DEFINE k == << Head(w.todo), target >>
           new == [index |-> Head(w.todo), target |-> target,
                   message |-> w.session[Head(w.todo)], status |-> "pending"]
           s == Known(w)
<1>1. s \in Seq(Entries) /\ Unique(s) /\ Elems(s) \subseteq Entries
  BY KnownTypes, ElemsTypes
<1>2. target \in Targets /\ w.session \in Seq(Messages) /\ w.todo \in Seq(Messages)
  BY WorkerFields DEF Handy
<1>3. Head(w.todo) \in DOMAIN w.session /\ Head(w.todo) \in Messages
  <2>1. Head(w.todo) = w.todo[1] /\ 1 \in DOMAIN w.todo
    BY <1>2
  <2> QED
    BY <1>2, <2>1 DEF Handy
<1>4. w.session[Head(w.todo)] \in Messages
  BY <1>2, <1>3
<1>5. new \in Entries /\ Key(new) = k /\ new.status = "pending"
  BY <1>2, <1>3, <1>4 DEF Entries, Statuses, Key
<1>6. EntryToWrite(w) = IF HasKey(s, k) THEN EntryOf(s, k) ELSE new
  BY DEF EntryToWrite
<1> HIDE DEF new, s, k
<1>7. CASE HasKey(s, k)
  <2>1. EntryToWrite(w) = EntryOf(s, k)
    BY <1>6, <1>7
  <2>2. EntryOf(s, k) \in Elems(s) /\ Key(EntryOf(s, k)) = k
    BY <1>1, <1>7, EntryFound
  <2> QED
    BY <1>1, <2>1, <2>2 DEF s, k
<1>8. CASE ~ HasKey(s, k)
  <2>1. EntryToWrite(w) = new
    BY <1>6, <1>8
  <2>2. \A x \in Elems(s) : Key(x) # k
    BY <1>1, <1>8, EntryFound
  <2> QED
    BY <1>5, <2>1, <2>2 DEF s, k
<1> QED
  BY <1>7, <1>8

LEMMA UpsertedKeeps ==
  ASSUME Types, NEW w, Handy(w, written, target), w.todo # << >>
  PROVE  LET e == EntryToWrite(w)
             u == Upserted(w)
         IN  /\ Handy(u, written, target) /\ u.pc = w.pc /\ u.attempts = w.attempts
             /\ u.due = w.due /\ u.todo = Tail(w.todo) /\ u.session = w.session
             /\ ~ setup.live =>
                  Elems(u.copy) = {x \in Elems(w.copy) : Key(x) # Key(e)} \cup {e}
<1> DEFINE e == EntryToWrite(w)
           copy == IF setup.live THEN w.copy ELSE WithEntry(w.copy, e)
           todo == Tail(w.todo)
           u == Upserted(w)
<1>1. w \in Workers /\ w.copy \in Seq(Entries) /\ w.todo \in Seq(Messages)
      /\ Unique(w.copy)
  BY WorkerFields DEF Handy
<1>2. e \in Entries
  BY EntryToWriteKeeps
<1>3. u = [w EXCEPT !.todo = todo, !.copy = copy]
  BY DEF Upserted
<1>4. /\ copy \in Seq(Entries) /\ Unique(copy)
      /\ ~ setup.live => Elems(copy) = {x \in Elems(w.copy) : Key(x) # Key(e)} \cup {e}
  <2> HIDE DEF e
  <2>1. CASE setup.live
    BY <1>1, <2>1
  <2>2. CASE ~ setup.live
    BY <1>1, <1>2, <2>2, WithEntryKeeps
  <2> QED
    BY <2>1, <2>2
<1>5. todo \in Seq(Messages) /\ Len(w.todo) \in Nat /\ Len(todo) = Len(w.todo) - 1
      /\ \A i \in 1 .. Len(todo) : todo[i] = w.todo[i + 1] /\ i + 1 \in DOMAIN w.todo
  BY <1>1
<1>6. \A i \in DOMAIN todo : todo[i] \in DOMAIN w.session
  BY <1>5 DEF Handy
<1> HIDE DEF e, copy, todo, u
<1>7. /\ u.todo = todo /\ u.copy = copy /\ u.pc = w.pc /\ u.attempts = w.attempts
      /\ u.due = w.due /\ u.session = w.session
  BY <1>1, <1>3 DEF Workers
<1>8. u \in Workers
  BY <1>1, <1>3, <1>4, <1>5 DEF Workers
<1>9. Handy(u, written, target)
  BY <1>4, <1>6, <1>7, <1>8 DEF Handy
<1> QED
  BY <1>4, <1>7, <1>9 DEF e, u, todo

LEMMA InitStanding == Init => Standing
<1> SUFFICES ASSUME Init PROVE Standing
  OBVIOUS
<1>1. setup \in Setups /\ MaxMessages \in Nat /\ MaxCrashes \in Nat /\ MaxFailures \in Nat
      /\ setup.rewrites \in 0 .. 1
  BY OutboxAssumption DEF Init
<1>2. server = Free /\ back = Free /\ Handy(Free, 0, NoTarget)
  BY FreeHandy, FreeItself DEF Init
<1>3. /\ messages = << >> /\ outbox = << >> /\ receipts = << >> /\ tracker = {}
      /\ target = NoTarget /\ up = TRUE
      /\ written = 0 /\ crashes = 0 /\ failures = 0 /\ rewrites = 0
  BY DEF Init
<1>4. unsure \in [Keys -> Nat]
  BY DEF Init
<1>5. 0 \in 0 .. MaxMessages /\ 0 \in 0 .. MaxCrashes /\ 0 \in 0 .. MaxFailures
      /\ 0 \in 0 .. setup.rewrites
  BY <1>1
<1>6. Types
  BY <1>1, <1>2, <1>3, <1>4, <1>5, EmptyUnique DEF Types
<1>7. server.pc = "ready" /\ back.pc = "ready"
  BY <1>2, FreeFields
<1>8. Phases
  BY <1>7 DEF Phases, HoldsRun, Sending
<1> QED
  BY <1>6, <1>8 DEF Standing

LEMMA DispatchStands == Standing /\ Dispatch => Standing'
<1> SUFFICES ASSUME Standing, Dispatch PROVE Standing'
  OBVIOUS
<1>1. target' \in Targets /\ written \in Nat
  BY Fields DEF Standing, Dispatch
<1>2. /\ Handy(server', written, target') /\ server'.pc = "turn"
  BY <1>1, FreeHandy DEF Dispatch
<1>3. Handy(back, written, target')
  BY <1>1, HandyLater DEF Standing, Types
<1>4. Types'
  BY <1>1, <1>2, <1>3 DEF Standing, Types, Dispatch, budgets, vars
<1>5. Phases'
  BY <1>1, <1>2 DEF Standing, Phases, Dispatch, HoldsRun, Sending
<1> QED
  BY <1>4, <1>5 DEF Standing

LEMMA TurnStands == Standing /\ Turn => Standing'
<1> SUFFICES ASSUME Standing, Turn PROVE Standing'
  OBVIOUS
<1>1. CASE TurnEnds(server')
  <2>1. /\ written' \in 0 .. MaxMessages /\ written <= written'
        /\ rewrites' \in 0 .. setup.rewrites
        /\ Handy(server', written', target) /\ server'.pc = "commit"
    BY <1>1, TurnEndsKeeps DEF Standing
  <2>2. written \in Nat /\ written' \in Nat /\ Len(messages) \in Nat
    BY <2>1, Fields DEF Standing, Types
  <2>3. Handy(back, written', target)
    BY <2>1, <2>2, HandyLater DEF Standing, Types
  <2>4. Len(messages) <= written'
    BY <2>1, <2>2 DEF Standing, Types
  <2>5. Types'
    BY <2>1, <2>3, <2>4 DEF Standing, Types, Turn
  <2>6. Phases'
    BY <2>1 DEF Standing, Phases, Turn, HoldsRun, Sending
  <2> QED
    BY <2>5, <2>6 DEF Standing
<1>2. CASE server' = Free /\ UNCHANGED << written, rewrites >>
  <2>1. Handy(server', written, target) /\ server'.pc = "ready"
    BY <1>2, FreeHandy, FreeItself, Fields DEF Standing
  <2>2. Types'
    BY <1>2, <2>1 DEF Standing, Types, Turn
  <2>3. Phases'
    BY <1>2, <2>1 DEF Standing, Phases, Turn, HoldsRun, Sending
  <2> QED
    BY <2>2, <2>3 DEF Standing
<1> QED
  BY <1>1, <1>2 DEF Turn

LEMMA BackgroundTurnStands == Standing /\ BackgroundTurn => Standing'
<1> SUFFICES ASSUME Standing, BackgroundTurn PROVE Standing'
  OBVIOUS
<1>1. /\ written' \in 0 .. MaxMessages /\ written <= written'
      /\ rewrites' \in 0 .. setup.rewrites
      /\ Handy(back', written', target) /\ back'.pc = "commit"
  BY TurnEndsKeeps DEF Standing, BackgroundTurn
<1>2. written \in Nat /\ written' \in Nat /\ Len(messages) \in Nat
  BY <1>1, Fields DEF Standing, Types
<1>3. Handy(server, written', target)
  BY <1>1, <1>2, HandyLater DEF Standing, Types
<1>4. Len(messages) <= written'
  BY <1>1, <1>2 DEF Standing, Types
<1>5. Types'
  BY <1>1, <1>3, <1>4 DEF Standing, Types, BackgroundTurn
<1>6. Phases'
  BY <1>1 DEF Standing, Phases, BackgroundTurn, HoldsRun, Sending
<1> QED
  BY <1>5, <1>6 DEF Standing

LEMMA ServerUpsertStands == Standing /\ ServerUpsert => Standing'
<1> SUFFICES ASSUME Standing, ServerUpsert PROVE Standing'
  OBVIOUS
<1>1. Handy(server, written, target) /\ server.todo # << >>
  BY DEF Standing, Types, ServerUpsert
<1>2. EntryToWrite(server) \in Entries
  BY <1>1, EntryToWriteKeeps DEF Standing
<1>3. Handy(server', written, target) /\ server'.pc = server.pc
      /\ server'.attempts = server.attempts
  BY <1>1, UpsertedKeeps DEF Standing, ServerUpsert
<1>4. outbox' \in Seq(Entries) /\ Unique(outbox')
  BY <1>2, WithEntryKeeps DEF Standing, Types, ServerUpsert
<1>5. Types'
  BY <1>3, <1>4 DEF Standing, Types, ServerUpsert, budgets
<1>6. Phases'
  BY <1>3 DEF Standing, Phases, ServerUpsert, HoldsRun, Sending
<1> QED
  BY <1>5, <1>6 DEF Standing

LEMMA BackgroundUpsertStands == Standing /\ BackgroundUpsert => Standing'
<1> SUFFICES ASSUME Standing, BackgroundUpsert PROVE Standing'
  OBVIOUS
<1>1. Handy(back, written, target) /\ back.todo # << >>
  BY DEF Standing, Types, BackgroundUpsert
<1>2. EntryToWrite(back) \in Entries
  BY <1>1, EntryToWriteKeeps DEF Standing
<1>3. Handy(back', written, target) /\ back'.pc = back.pc
  BY <1>1, UpsertedKeeps DEF Standing, BackgroundUpsert
<1>4. outbox' \in Seq(Entries) /\ Unique(outbox')
  BY <1>2, WithEntryKeeps DEF Standing, Types, BackgroundUpsert
<1>5. Types'
  BY <1>3, <1>4 DEF Standing, Types, BackgroundUpsert, budgets
<1>6. Phases'
  BY <1>3 DEF Standing, Phases, BackgroundUpsert, HoldsRun, Sending
<1> QED
  BY <1>5, <1>6 DEF Standing

(* A worker goes on to p with what it has in hand.                          *)
LEMMA GoesOn ==
  ASSUME NEW w, NEW n, NEW to, Handy(w, n, to), NEW p,
         [w EXCEPT !.pc = p] \in Workers, w.todo # << >> => p \in Preparing
  PROVE  LET u == [w EXCEPT !.pc = p] IN
           /\ Handy(u, n, to) /\ u.pc = p /\ u.attempts = w.attempts
           /\ u.due = w.due /\ u.todo = w.todo /\ u.session = w.session
           /\ u.copy = w.copy
<1> DEFINE u == [w EXCEPT !.pc = p]
<1>1. /\ u.pc = p /\ u.session = w.session /\ u.todo = w.todo /\ u.copy = w.copy
      /\ u.attempts = w.attempts /\ u.due = w.due
  BY DEF Handy, Workers
<1>2. u \in Workers
  OBVIOUS
<1> HIDE DEF u
<1>3. Handy(u, n, to)
  BY <1>1, <1>2 DEF Handy
<1> QED
  BY <1>1, <1>3 DEF u

LEMMA CommitStands == Standing /\ Commit => Standing'
<1> SUFFICES ASSUME Standing, Commit PROVE Standing'
  OBVIOUS
<1>1. Handy(server, written, target) /\ server.todo = << >>
  BY DEF Standing, Types, Commit
<1>2. [server EXCEPT !.pc = "read"] \in Workers
  BY <1>1 DEF Handy, Workers
<1>3. Handy(server', written, target) /\ server'.pc = "read"
  BY <1>1, <1>2, GoesOn DEF Commit
<1>4. messages' \in Seq(Messages) /\ Len(messages') <= written
  BY <1>1, WorkerFields DEF Commit, Handy
<1>5. Types'
  BY <1>3, <1>4 DEF Standing, Types, Commit, budgets
<1>6. target \in Targets
  BY DEF Standing, Phases, Commit
<1>7. Phases'
  BY <1>3, <1>6 DEF Standing, Phases, Commit, HoldsRun, Sending
<1> QED
  BY <1>5, <1>7 DEF Standing

LEMMA BackgroundCommitStands == Standing /\ BackgroundCommit => Standing'
<1> SUFFICES ASSUME Standing, BackgroundCommit PROVE Standing'
  OBVIOUS
<1>1. Handy(back, written, target)
  BY DEF Standing, Types
<1>2. Handy(back', written, target) /\ back'.pc = "ready"
  BY FreeHandy, FreeItself, Fields DEF Standing, BackgroundCommit
<1>3. messages' \in Seq(Messages) /\ Len(messages') <= written
  BY <1>1, WorkerFields DEF BackgroundCommit, Handy
<1>4. Types'
  BY <1>2, <1>3 DEF Standing, Types, BackgroundCommit, budgets
<1>5. Phases'
  BY <1>2 DEF Standing, Phases, BackgroundCommit, HoldsRun, Sending
<1> QED
  BY <1>4, <1>5 DEF Standing

LEMMA PrepareStands == Standing /\ Prepare => Standing'
<1> SUFFICES ASSUME Standing, Prepare PROVE Standing'
  OBVIOUS
<1>1. PICK read \in ReadOutbox :
        server' = [server EXCEPT !.pc = "prepare", !.copy = read,
                                 !.todo = Pending(server.session)]
  BY DEF Prepare
<1>2. Handy(server, written, target) /\ target \in Targets
  BY DEF Standing, Types, Phases, Prepare
<1>3. read \in Seq(Entries) /\ Unique(read)
  BY ReadKeeps DEF Standing
<1> DEFINE todo == Pending(server.session)
<1>4. server.session \in Seq(Messages) /\ Len(server.session) <= written
  BY <1>2, WorkerFields DEF Handy
<1>5. todo \in Seq(Messages) /\ \A i \in DOMAIN todo : todo[i] \in DOMAIN server.session
  BY <1>4, Fields, PendingTypes DEF Standing
<1> HIDE DEF todo
<1>6. /\ server'.pc = "prepare" /\ server'.copy = read /\ server'.todo = todo
      /\ server'.session = server.session /\ server'.attempts = server.attempts
  BY <1>1, <1>2 DEF Handy, Workers, todo
<1>7. server' \in Workers
  BY <1>1, <1>2, <1>3, <1>5 DEF Handy, Workers, todo
<1>8. Handy(server', written, target)
  BY <1>2, <1>3, <1>5, <1>6, <1>7 DEF Handy, Preparing
<1>9. Types'
  BY <1>8 DEF Standing, Types, Prepare, budgets
<1>10. Phases'
  BY <1>2, <1>6 DEF Standing, Phases, Prepare, HoldsRun, Sending
<1> QED
  BY <1>9, <1>10 DEF Standing

(* A worker begins to deliver.                                              *)
LEMMA BeginsToDeliver ==
  ASSUME NEW attempts \in Seq(Entries), Unique(attempts), NEW due \in SUBSET Keys,
         NEW n \in Nat, NEW to
  PROVE  LET w == [Free EXCEPT !.pc = "deliver", !.due = due, !.attempts = attempts] IN
           /\ Handy(w, n, to) /\ w.pc = "deliver" /\ w.due = due
           /\ w.attempts = attempts
<1> DEFINE w == [Free EXCEPT !.pc = "deliver", !.due = due, !.attempts = attempts]
<1>1. w \in Workers
  BY FreeFields DEF Workers
<1>2. /\ w.pc = "deliver" /\ w.session = << >> /\ w.todo = << >> /\ w.copy = << >>
      /\ w.attempts = attempts /\ w.due = due
  BY DEF Free
<1> HIDE DEF w
<1>3. Len(w.session) = 0 /\ DOMAIN w.todo = {}
  BY <1>2
<1>4. Handy(w, n, to)
  BY <1>1, <1>2, <1>3, EmptyUnique DEF Handy
<1> QED
  BY <1>2, <1>4 DEF w

LEMMA PreparedStands == Standing /\ Prepared => Standing' /\ server'.due = {}
                                                /\ server'.attempts = Attempts(server)
<1> SUFFICES ASSUME Standing, Prepared
             PROVE  Standing' /\ server'.due = {} /\ server'.attempts = Attempts(server)
  OBVIOUS
<1> DEFINE attempts == Attempts(server)
<1>1. attempts \in Seq(Entries) /\ Unique(attempts)
  BY AttemptsKeep DEF Standing, Types
<1>2. server' = [Free EXCEPT !.pc = "deliver", !.attempts = attempts]
  BY DEF Prepared
<1> HIDE DEF attempts
<1>3. server' \in Workers
  BY <1>1, <1>2, FreeFields DEF Workers
<1>4. /\ server'.pc = "deliver" /\ server'.session = << >> /\ server'.todo = << >>
      /\ server'.copy = << >> /\ server'.attempts = attempts /\ server'.due = {}
  BY <1>2 DEF Free
<1>5. Len(server'.session) = 0 /\ DOMAIN server'.todo = {} /\ written \in Nat
  BY <1>4, Fields DEF Standing
<1>6. Handy(server', written, target)
  BY <1>1, <1>3, <1>4, <1>5, EmptyUnique DEF Handy
<1>7. Types'
  BY <1>6 DEF Standing, Types, Prepared, budgets
<1>8. Phases'
  BY <1>4 DEF Standing, Phases, Prepared, HoldsRun, Sending
<1> QED
  BY <1>4, <1>7, <1>8 DEF Standing, attempts

LEMMA ListPendingStands ==
  ASSUME Standing, ListPending
  PROVE  /\ Standing' /\ server'.pc = "deliver" /\ server'.due = server.due
         /\ Unique(server'.attempts)
         /\ Elems(server'.attempts) = {e \in Elems(outbox) : Retryable(e)}
<1>1. PICK attempts \in Sorted(Those(outbox, RetryablePlaces(outbox))) :
        server' = [Free EXCEPT !.pc = "deliver", !.due = server.due,
                               !.attempts = attempts]
  BY DEF ListPending
<1>2. attempts \in Seq(Entries) /\ Unique(attempts)
      /\ Elems(attempts) = {e \in Elems(outbox) : Retryable(e)}
  BY ListedKeep DEF Standing
<1>3. server.due \in SUBSET Keys /\ written \in Nat
  BY WorkerFields, Fields DEF Standing, Types, Handy
<1>4. /\ Handy(server', written, target) /\ server'.pc = "deliver"
      /\ server'.due = server.due /\ server'.attempts = attempts
  BY <1>1, <1>2, <1>3, BeginsToDeliver
<1>5. Types'
  BY <1>4 DEF Standing, Types, ListPending, budgets
<1>6. Phases'
  BY <1>4 DEF Standing, Phases, ListPending, HoldsRun, Sending
<1> QED
  BY <1>2, <1>4, <1>5, <1>6 DEF Standing

LEMMA CurrentFields ==
  ASSUME Standing, server.attempts # << >>
  PROVE  /\ Current \in Entries /\ Current \in Elems(server.attempts)
         /\ Key(Current) \in Keys
<1>1. server.attempts \in Seq(Entries)
  BY WorkerFields DEF Standing, Types, Handy
<1>2. Current \in Elems(server.attempts) /\ Current \in Entries
  BY <1>1, TailElems, ElemsTypes DEF Current
<1> QED
  BY <1>2, EntryFields

LEMMA MarkTypes ==
  ASSUME Standing, NEW k, NEW st \in Statuses
  PROVE  Mark(outbox, k, st) \in Seq(Entries) /\ Unique(Mark(outbox, k, st))
BY MarkKeeps DEF Standing, Types

LEMMA DeliveringStands ==
  ASSUME Standing, Delivering
  PROVE  /\ Standing' /\ server'.pc = "send" /\ server'.due = server.due
         /\ server'.attempts = server.attempts
<1>1. Handy(server, written, target) /\ server.todo = << >>
  BY DEF Standing, Types, Delivering, Handy, Preparing
<1>2. [server EXCEPT !.pc = "send"] \in Workers
  BY <1>1 DEF Handy, Workers
<1>3. Handy(server', written, target) /\ server'.pc = "send"
      /\ server'.attempts = server.attempts /\ server'.due = server.due
  BY <1>1, <1>2, GoesOn DEF Delivering
<1>4. outbox' \in Seq(Entries) /\ Unique(outbox')
  BY MarkTypes DEF Delivering, Statuses
<1>5. Types'
  BY <1>3, <1>4 DEF Standing, Types, Delivering, budgets
<1>6. Phases'
  BY <1>3 DEF Standing, Phases, Delivering, HoldsRun, Sending
<1> QED
  BY <1>3, <1>5, <1>6 DEF Standing

LEMMA DeliverStands ==
  ASSUME Standing, Deliver
  PROVE  /\ Standing' /\ server'.pc \in {"record", "fail"}
         /\ server'.due = server.due /\ server'.attempts = server.attempts
         /\ server.attempts # << >>
<1>1. Handy(server, written, target) /\ server.todo = << >> /\ server.attempts # << >>
  BY DEF Standing, Types, Phases, Deliver, Handy, Preparing, Sending
<1>2. [server EXCEPT !.pc = "record"] \in Workers /\ [server EXCEPT !.pc = "fail"] \in Workers
  BY <1>1 DEF Handy, Workers
<1>3. Handy(server', written, target) /\ server'.pc \in {"record", "fail"}
      /\ server'.attempts = server.attempts /\ server'.due = server.due
  <2>1. CASE server' = [server EXCEPT !.pc = "record"]
    BY <1>1, <1>2, <2>1, GoesOn
  <2>2. CASE server' = [server EXCEPT !.pc = "fail"]
    BY <1>1, <1>2, <2>2, GoesOn
  <2> QED
    BY <2>1, <2>2 DEF Deliver
<1>4. Current \in Entries /\ Key(Current) \in Keys
  BY <1>1, CurrentFields
<1>5. receipts' \in Seq(Receipts)
  <2>1. CASE Received
    <3> DEFINE r == [index |-> Current.index, target |-> Current.target,
                     message |-> Current.message]
    <3>1. r \in Receipts
      BY <1>4, EntryFields DEF Receipts
    <3>2. receipts' = Append(receipts, r)
      BY <2>1 DEF Received
    <3> HIDE DEF r
    <3> QED
      BY <3>1, <3>2 DEF Standing, Types
  <2>2. CASE receipts' = receipts
    BY <2>2 DEF Standing, Types
  <2> QED
    BY <2>1, <2>2 DEF Deliver
<1>6. unsure' \in [Keys -> Nat]
  <2>1. unsure \in [Keys -> Nat]
    BY DEF Standing, Types
  <2>2. CASE unsure' = [unsure EXCEPT ![Key(Current)] = @ + 1]
    <3>1. unsure[Key(Current)] + 1 \in Nat
      BY <1>4, <2>1
    <3> HIDE DEF Key, Keys
    <3> QED
      BY <2>1, <2>2, <3>1
  <2>3. CASE unsure' = unsure
    BY <2>1, <2>3
  <2> QED
    BY <2>2, <2>3 DEF Deliver
<1>7. failures' \in 0 .. MaxFailures
  <2>1. failures \in 0 .. MaxFailures /\ MaxFailures \in Nat
    BY OutboxAssumption DEF Standing, Types
  <2> QED
    BY <2>1 DEF Deliver
<1>8. Types'
  BY <1>3, <1>5, <1>6, <1>7 DEF Standing, Types, Deliver
<1>9. Phases'
  BY <1>1, <1>3 DEF Standing, Phases, Deliver, HoldsRun, Sending
<1> QED
  BY <1>1, <1>3, <1>8, <1>9 DEF Standing

LEMMA DeliveredStands ==
  ASSUME Standing, Delivered
  PROVE  /\ Standing' /\ server'.pc = "deliver" /\ server'.due = server.due
         /\ server'.attempts = Tail(server.attempts) /\ server.attempts # << >>
<1>1. Handy(server, written, target) /\ server.todo = << >> /\ server.attempts # << >>
      /\ server \in Workers /\ server.attempts \in Seq(Entries)
  BY WorkerFields DEF Standing, Types, Phases, Delivered, Handy, Preparing, Sending
<1>2. Tail(server.attempts) \in Seq(Entries) /\ Unique(Tail(server.attempts))
  BY <1>1, TailElems, TailUnique DEF Handy
<1>3. /\ server'.pc = "deliver" /\ server'.due = server.due
      /\ server'.attempts = Tail(server.attempts) /\ server'.todo = server.todo
      /\ server'.copy = server.copy /\ server'.session = server.session
  BY <1>1 DEF Delivered, Workers
<1>4. server' \in Workers
  BY <1>1, <1>2 DEF Delivered, Workers
<1>5. Handy(server', written, target)
  BY <1>1, <1>2, <1>3, <1>4 DEF Handy
<1>6. outbox' \in Seq(Entries) /\ Unique(outbox')
  BY MarkTypes DEF Delivered, Statuses
<1>7. tracker' \subseteq Keys
  BY <1>1, CurrentFields DEF Standing, Types, Delivered
<1>8. Types'
  BY <1>5, <1>6, <1>7 DEF Standing, Types, Delivered, budgets
<1>9. Phases'
  BY <1>3 DEF Standing, Phases, Delivered, HoldsRun, Sending
<1> QED
  BY <1>1, <1>3, <1>8, <1>9 DEF Standing

LEMMA FailedStands == Standing /\ Failed => Standing'
<1> SUFFICES ASSUME Standing, Failed PROVE Standing'
  OBVIOUS
<1>1. Handy(server', written, target) /\ server'.pc = "ready"
  BY FreeHandy, FreeItself, Fields DEF Standing, Failed
<1>2. outbox' \in Seq(Entries) /\ Unique(outbox')
  BY MarkTypes DEF Failed, Statuses
<1>3. Types'
  BY <1>1, <1>2 DEF Standing, Types, Failed, budgets
<1>4. Phases'
  BY <1>1 DEF Standing, Phases, Failed, HoldsRun, Sending
<1> QED
  BY <1>3, <1>4 DEF Standing

LEMMA AllDeliveredStands ==
  ASSUME Standing, AllDelivered
  PROVE  /\ Standing' /\ server'.pc = "ready" /\ server'.due = server.due
         /\ server'.attempts = << >>
<1>1. server.due \in SUBSET Keys /\ written \in Nat
  BY WorkerFields, Fields DEF Standing, Types, Handy
<1>2. server' \in Workers
  BY <1>1, FreeFields DEF AllDelivered, Workers
<1>3. /\ Handy(server', written, target) /\ server'.pc = "ready"
      /\ server'.due = server.due /\ server'.attempts = << >>
  <2>1. /\ server'.pc = "ready" /\ server'.session = << >> /\ server'.todo = << >>
        /\ server'.copy = << >> /\ server'.attempts = << >>
        /\ server'.due = server.due
    BY DEF AllDelivered, Free
  <2>2. Len(server'.session) = 0 /\ DOMAIN server'.todo = {}
    BY <2>1
  <2>3. Handy(server', written, target)
    BY <1>1, <1>2, <2>1, <2>2, EmptyUnique DEF Handy
  <2> QED
    BY <2>1, <2>3
<1>4. Types'
  BY <1>3 DEF Standing, Types, AllDelivered, budgets
<1>5. Phases'
  BY <1>3 DEF Standing, Phases, AllDelivered, HoldsRun, Sending
<1> QED
  BY <1>3, <1>4, <1>5 DEF Standing

LEMMA CrashStands == Standing /\ Crash => Standing'
<1> SUFFICES ASSUME Standing, Crash PROVE Standing'
  OBVIOUS
<1>1. Handy(Free, written, target) /\ Free.pc = "ready"
  BY FreeHandy, FreeItself, Fields DEF Standing
<1>2. outbox' \in Seq(Entries) /\ Unique(outbox')
  BY SortedKeeps DEF Standing, Types, Crash
<1>3. unsure' \in [Keys -> Nat]
  <2>1. unsure \in [Keys -> Nat]
    BY DEF Standing, Types
  <2>2. CASE server.pc = "record"
    <3>1. Key(Current) \in Keys
      BY <2>2, CurrentFields DEF Standing, Phases, Sending
    <3>2. unsure' = [unsure EXCEPT ![Key(Current)] = @ + 1]
      BY <2>2 DEF Crash
    <3>3. unsure[Key(Current)] + 1 \in Nat
      BY <2>1, <3>1
    <3> QED
      BY <2>1, <3>1, <3>2, <3>3
  <2>3. CASE server.pc # "record"
    BY <2>1, <2>3 DEF Crash
  <2> QED
    BY <2>2, <2>3
<1>4. crashes' \in 0 .. MaxCrashes
  BY OutboxAssumption DEF Standing, Types, Crash
<1>5. Types'
  BY <1>1, <1>2, <1>3, <1>4 DEF Standing, Types, Crash
<1>6. Phases'
  BY <1>1 DEF Standing, Phases, Crash, HoldsRun, Sending
<1> QED
  BY <1>5, <1>6 DEF Standing

LEMMA RestartStands == Standing /\ Restart => Standing'
<1> SUFFICES ASSUME Standing, Restart PROVE Standing'
  OBVIOUS
<1>1. Handy(server', written, target) /\ server'.pc = "start"
  BY FreeHandy, Fields DEF Standing, Restart
<1>2. Types'
  BY <1>1 DEF Standing, Types, Restart, budgets
<1>3. Phases'
  BY <1>1 DEF Standing, Phases, Restart, HoldsRun, Sending
<1> QED
  BY <1>2, <1>3 DEF Standing

LEMMA VisibleTypes ==
  ASSUME Standing
  PROVE  Visible \in Seq(Messages) /\ Len(Visible) <= written
BY WorkerFields DEF Standing, Types, Visible, Handy

LEMMA MaterializeStands ==
  ASSUME Standing, Materialize
  PROVE  /\ Standing' /\ server'.pc = "list" /\ server'.attempts = << >>
         /\ server'.due = {k \in Keys : \/ Status(k) \notin {"none", "delivered"}
                                        \/ k \in (DOMAIN Visible) \X {target}}
         /\ target \in Targets => Elems(server'.todo) = DOMAIN Visible
         /\ ~ setup.live => Elems(server'.copy) = Elems(outbox)
<1> DEFINE todo == IF target = NoTarget THEN << >> ELSE Indexes(Visible)
           due == {k \in Keys : \/ Status(k) \notin {"none", "delivered"}
                                \/ k \in (DOMAIN Visible) \X {target}}
<1>1. PICK read \in ReadOutbox :
       server' = [Free EXCEPT !.pc = "list", !.session = Visible, !.copy = read,
                              !.todo = todo, !.due = due]
  BY DEF Materialize
<1>2. read \in Seq(Entries) /\ Unique(read)
      /\ (~ setup.live => Elems(read) = Elems(outbox))
  BY ReadKeeps DEF Standing
<1>3. Visible \in Seq(Messages) /\ Len(Visible) <= written
  BY VisibleTypes
<1>4. /\ Indexes(Visible) \in Seq(Messages) /\ Elems(Indexes(Visible)) = DOMAIN Visible
      /\ \A i \in DOMAIN Indexes(Visible) : Indexes(Visible)[i] = i /\ i \in DOMAIN Visible
  BY <1>3, Fields, IndexesTypes DEF Standing
<1>5. target \in Targets \cup {NoTarget} /\ NoTarget \notin Targets
  BY OutboxAssumption DEF Standing, Types
<1>6. /\ todo \in Seq(Messages)
      /\ \A i \in DOMAIN todo : todo[i] \in DOMAIN Visible
      /\ todo # << >> => target \in Targets
      /\ target \in Targets => Elems(todo) = DOMAIN Visible
  <2>1. CASE target = NoTarget
    <3>1. todo = << >>
      BY <2>1
    <3> HIDE DEF todo
    <3> QED
      BY <1>5, <2>1, <3>1
  <2>2. CASE target # NoTarget
    <3>1. todo = Indexes(Visible)
      BY <2>2
    <3> HIDE DEF todo
    <3> QED
      BY <1>4, <1>5, <2>2, <3>1
  <2> QED
    BY <2>1, <2>2
<1>7. due \in SUBSET Keys
  OBVIOUS
<1> HIDE DEF todo, due
<1>8. /\ server'.pc = "list" /\ server'.session = Visible /\ server'.copy = read
      /\ server'.todo = todo /\ server'.due = due /\ server'.attempts = << >>
  BY <1>1 DEF Free
<1>9. server' \in Workers
  BY <1>1, <1>2, <1>3, <1>6, <1>7, FreeFields DEF Workers
<1>10. Handy(server', written, target)
  BY <1>2, <1>3, <1>6, <1>8, <1>9, EmptyUnique DEF Handy, Preparing
<1>11. Types'
  BY <1>10 DEF Standing, Types, Materialize, budgets
<1>12. Phases'
  BY <1>8 DEF Standing, Phases, Materialize, HoldsRun, Sending
<1> QED
  BY <1>2, <1>6, <1>8, <1>11, <1>12 DEF Standing, due

LEMMA NextStands == Standing /\ [Next]_vars => Standing'
<1> SUFFICES ASSUME Standing, [Next]_vars PROVE Standing'
  OBVIOUS
<1>1. CASE Dispatch
  BY <1>1, DispatchStands
<1>2. CASE Turn \/ BackgroundTurn
  BY <1>2, TurnStands, BackgroundTurnStands
<1>3. CASE ServerUpsert \/ BackgroundUpsert
  BY <1>3, ServerUpsertStands, BackgroundUpsertStands
<1>4. CASE Commit \/ BackgroundCommit
  BY <1>4, CommitStands, BackgroundCommitStands
<1>5. CASE Prepare \/ Prepared
  BY <1>5, PrepareStands, PreparedStands
<1>6. CASE Delivering \/ Deliver
  BY <1>6, DeliveringStands, DeliverStands
<1>7. CASE Delivered \/ Failed \/ AllDelivered
  BY <1>7, DeliveredStands, FailedStands, AllDeliveredStands
<1>8. CASE Materialize \/ ListPending
  BY <1>8, MaterializeStands, ListPendingStands
<1>9. CASE Crash \/ Restart
  BY <1>9, CrashStands, RestartStands
<1>10. CASE UNCHANGED vars
  BY <1>10 DEF Standing, Types, Phases, HoldsRun, vars, budgets
<1> QED
  BY <1>1, <1>2, <1>3, <1>4, <1>5, <1>6, <1>7, <1>8, <1>9, <1>10
     DEF Next, ServerStep, BackgroundStep

(* The outbox, the session and what the two threads of control have in hand *)
(* keep their shape, with one entry per key, and only one of them is in a   *)
(* turn, over crashes and restarts (the run's lock, upsertOutbox).          *)
THEOREM OutboxTypeCorrect == Spec => []TypeOK
<1>1. Standing => TypeOK
  BY DEF Standing, Types, Phases, TypeOK, Handy, Unique, Receipts
<1> QED
  BY <1>1, InitStanding, NextStands, PTL DEF Spec

-----------------------------------------------------------------------------
(* What is recorded.                                                        *)

(* An outbox that has the same deliveries and no fewer open entries.        *)
Grows ==
  \A k \in Keys : /\ IsDelivered(k)' <=> IsDelivered(k)
                  /\ IsOpen(k) => IsOpen(k)'

LEMMA SameElems == ASSUME Elems(outbox') = Elems(outbox) PROVE Grows
BY DEF Grows, IsDelivered, IsOpen

(* An entry is delivered or open, never both, and each key has an entry as  *)
(* soon as the outbox knows a status for it.                                *)
LEMMA OpenOrDelivered ==
  ASSUME Standing, NEW k
  PROVE  /\ ~ (IsDelivered(k) /\ IsOpen(k))
         /\ \A e \in Elems(outbox) : Key(e) = k => IsDelivered(k) \/ IsOpen(k)
         /\ Status(k) # "none" => IsDelivered(k) \/ IsOpen(k)
         /\ Status(k) = "delivered" <=> IsDelivered(k)
<1>1. outbox \in Seq(Entries) /\ Unique(outbox)
  BY DEF Standing, Types
<1>2. ~ (IsDelivered(k) /\ IsOpen(k))
  BY <1>1, OnePerKey DEF IsDelivered, IsOpen
<1>3. \A e \in Elems(outbox) : Key(e) = k => IsDelivered(k) \/ IsOpen(k)
  BY DEF IsDelivered, IsOpen
<1>4. CASE HasKey(outbox, k)
  <2> DEFINE e == EntryOf(outbox, k)
  <2>1. e \in Elems(outbox) /\ Key(e) = k
    BY <1>1, <1>4, EntryFound
  <2>2. Status(k) = e.status
    BY <1>4 DEF Status
  <2> HIDE DEF e
  <2>3. IsDelivered(k) => e.status = "delivered"
    BY <1>1, <2>1, OnePerKey DEF IsDelivered
  <2>4. e.status = "delivered" => IsDelivered(k)
    BY <2>1 DEF IsDelivered
  <2> QED
    BY <1>2, <1>3, <2>1, <2>2, <2>3, <2>4
<1>5. CASE ~ HasKey(outbox, k)
  <2>1. ~ IsDelivered(k)
    BY <1>1, <1>5, EntryFound DEF IsDelivered
  <2>2. Status(k) = "none"
    BY <1>5 DEF Status
  <2> QED
    BY <1>2, <1>3, <2>1, <2>2
<1> QED
  BY <1>4, <1>5

(* What a worker knows of the outbox is what the outbox has, so what it     *)
(* writes back changes nothing.                                             *)
LEMMA UpsertGrows ==
  ASSUME Standing, NEW w, Handy(w, written, target), w.todo # << >>,
         Elems(Known(w)) = Elems(outbox),
         outbox' = WithEntry(outbox, EntryToWrite(w))
  PROVE  /\ Grows
         /\ \A k \in Keys : k = << Head(w.todo), target >> => IsOpen(k)' \/ IsDelivered(k)'
<1> DEFINE e == EntryToWrite(w)
           k == << Head(w.todo), target >>
<1>1. /\ e \in Entries /\ Key(e) = k
      /\ e \in Elems(outbox) \/ e.status = "pending"
      /\ (\E x \in Elems(outbox) : Key(x) = Key(e)) => e \in Elems(outbox)
  BY EntryToWriteKeeps DEF Standing
<1> HIDE DEF e, k
<1>2. outbox \in Seq(Entries) /\ Unique(outbox)
  BY DEF Standing, Types
<1>3. Elems(outbox') = {x \in Elems(outbox) : Key(x) # Key(e)} \cup {e}
  BY <1>1, <1>2, WithEntryKeeps DEF e
<1>4. \A x \in Elems(outbox) : Key(x) = Key(e) => x = e
  BY <1>1, <1>2, OnePerKey
<1>5. Elems(outbox') = Elems(outbox) \cup {e}
  BY <1>1, <1>3, <1>4
<1>6. e \in Elems(outbox) \/ e.status # "delivered"
  BY <1>1
<1>7. Grows
  BY <1>5, <1>6 DEF Grows, IsDelivered, IsOpen
<1>8. ASSUME NEW j \in Keys, j = k PROVE IsOpen(j)' \/ IsDelivered(j)'
  BY <1>1, <1>5, <1>8 DEF IsOpen, IsDelivered
<1> QED
  BY <1>7, <1>8 DEF k

(* Marking an open entry as anything but delivered.                         *)
LEMMA MarkOpen ==
  ASSUME Standing, NEW k, IsOpen(k), NEW st \in Statuses, st # "delivered",
         outbox' = Mark(outbox, k, st)
  PROVE  Grows
<1> DEFINE M(x) == IF Key(x) = k THEN [x EXCEPT !.status = st] ELSE x
<1>1. outbox \in Seq(Entries) /\ Unique(outbox) /\ Elems(outbox) \subseteq Entries
  BY ElemsTypes DEF Standing, Types
<1>2. Elems(outbox') = {M(x) : x \in Elems(outbox)}
  BY <1>1, MarkKeeps
<1>3. \A x \in Elems(outbox) : /\ Key(M(x)) = Key(x)
                               /\ Key(x) = k => M(x).status = st
                               /\ Key(x) # k => M(x) = x
  BY <1>1 DEF Entries, Key
<1> HIDE DEF M
<1>4. ~ IsDelivered(k)
  BY OpenOrDelivered
<1>5. \A x \in Elems(outbox) : M(x).status = "delivered" <=> x.status = "delivered"
  BY <1>3, <1>4 DEF IsDelivered
<1>6. \A j : IsDelivered(j)' <=> IsDelivered(j)
  BY <1>2, <1>3, <1>5 DEF IsDelivered
<1>7. \A j : IsOpen(j) => IsOpen(j)'
  BY <1>2, <1>3, <1>5 DEF IsOpen
<1> QED
  BY <1>6, <1>7 DEF Grows

LEMMA MarkDelivered ==
  ASSUME Standing, NEW k, IsOpen(k), outbox' = Mark(outbox, k, "delivered")
  PROVE  /\ \A j \in Keys : IsDelivered(j)' <=> IsDelivered(j) \/ j = k
         /\ \A j \in Keys : IsOpen(j) /\ j # k => IsOpen(j)'
<1> DEFINE M(x) == IF Key(x) = k THEN [x EXCEPT !.status = "delivered"] ELSE x
<1>1. outbox \in Seq(Entries) /\ Unique(outbox) /\ Elems(outbox) \subseteq Entries
  BY ElemsTypes DEF Standing, Types
<1>2. Elems(outbox') = {M(x) : x \in Elems(outbox)}
  BY <1>1, MarkKeeps DEF Statuses
<1>3. \A x \in Elems(outbox) : /\ Key(M(x)) = Key(x)
                               /\ Key(x) = k => M(x).status = "delivered"
                               /\ Key(x) # k => M(x) = x
  BY <1>1 DEF Entries, Key
<1> HIDE DEF M
<1>4. \A j : IsDelivered(j)' <=> IsDelivered(j) \/ j = k
  BY <1>2, <1>3 DEF IsDelivered, IsOpen
<1>5. \A j : IsOpen(j) /\ j # k => IsOpen(j)'
  BY <1>2, <1>3 DEF IsOpen
<1> QED
  BY <1>4, <1>5

-----------------------------------------------------------------------------
(* Receipts.                                                                *)

LEMMA Counts ==
  ASSUME NEW r \in Seq(Receipts), NEW k
  PROVE  Cardinality({i \in DOMAIN r : Key(r[i]) = k}) \in Nat
<1>1. DOMAIN r = 1 .. Len(r) /\ Len(r) \in Nat
  OBVIOUS
<1>2. IsFiniteSet(1 .. Len(r))
  BY <1>1, FS_Interval
<1>3. IsFiniteSet({i \in DOMAIN r : Key(r[i]) = k})
  BY <1>1, <1>2, FS_Subset
<1> QED
  BY <1>3, FS_CardinalityType

LEMMA ReceiptCounted ==
  ASSUME Standing, Received, server.attempts # << >>, NEW k
  PROVE  /\ ReceiptsOf(k) \in Nat
         /\ ReceiptsOf(k)' = IF k = Key(Current) THEN ReceiptsOf(k) + 1 ELSE ReceiptsOf(k)
<1> DEFINE r == [index |-> Current.index, target |-> Current.target,
                 message |-> Current.message]
           n == Len(receipts)
           t == Append(receipts, r)
           I == {i \in DOMAIN receipts : Key(receipts[i]) = k}
           J == {i \in DOMAIN t : Key(t[i]) = k}
<1>1. receipts \in Seq(Receipts) /\ r \in Receipts /\ Key(r) = Key(Current)
  BY CurrentFields, EntryFields DEF Standing, Types, Receipts, Key
<1> HIDE DEF r
<1>2. /\ n \in Nat /\ DOMAIN receipts = 1 .. n /\ DOMAIN t = 1 .. n \cup {n + 1}
      /\ n + 1 \notin 1 .. n /\ t[n + 1] = r /\ \A i \in 1 .. n : t[i] = receipts[i]
  BY <1>1
<1>3. IsFiniteSet(I) /\ Cardinality(I) \in Nat
  <2>1. IsFiniteSet(1 .. n)
    BY <1>2, FS_Interval
  <2>2. I \subseteq 1 .. n
    BY <1>2
  <2>3. IsFiniteSet(I)
    BY <2>1, <2>2, FS_Subset
  <2> QED
    BY <2>3, FS_CardinalityType
<1>4. ReceiptsOf(k) = Cardinality(I) /\ ReceiptsOf(k)' = Cardinality(J)
  BY DEF ReceiptsOf, Received, r
<1> HIDE DEF t, n
<1>5. CASE k = Key(Current)
  <2>1. J = I \cup {n + 1} /\ n + 1 \notin I
    BY <1>1, <1>2, <1>5
  <2> HIDE DEF I, J
  <2>2. Cardinality(J) = Cardinality(I) + 1
    BY <1>3, <2>1, FS_AddElement
  <2> QED
    BY <1>3, <1>4, <1>5, <2>2
<1>6. CASE k # Key(Current)
  <2>1. J = I
    BY <1>1, <1>2, <1>6
  <2> HIDE DEF I, J
  <2> QED
    BY <1>3, <1>4, <1>6, <2>1
<1> QED
  BY <1>5, <1>6

LEMMA ReceiptsNat ==
  ASSUME Standing, NEW k \in Keys
  PROVE  ReceiptsOf(k) \in Nat /\ unsure[k] \in Nat
BY Counts DEF Standing, Types, ReceiptsOf

(* Nothing is received, and nothing recorded is taken back.                 *)
LEMMA AccountedFrame ==
  ASSUME Accounted, UNCHANGED << receipts, unsure >>,
         \A k \in Keys : IsDelivered(k) \/ Recording(k) => IsDelivered(k)' \/ Recording(k)',
         Standing
  PROVE  Accounted'
<1> SUFFICES ASSUME NEW k \in Keys
             PROVE  ReceiptsOf(k)' <= unsure[k]' + Granted(k)'
  BY DEF Accounted
<1>1. ReceiptsOf(k)' = ReceiptsOf(k) /\ unsure'[k] = unsure[k]
  BY DEF ReceiptsOf
<1>2. ReceiptsOf(k) \in Nat /\ unsure[k] \in Nat
  BY ReceiptsNat
<1>3. ReceiptsOf(k) <= unsure[k] + Granted(k)
  BY DEF Accounted
<1>4. Granted(k) \in {0, 1} /\ Granted(k)' \in {0, 1} /\ (Granted(k) = 1 => Granted(k)' = 1)
  BY DEF Granted
<1> DEFINE a == ReceiptsOf(k)
           u == unsure[k]
           g == Granted(k)
           h == Granted(k)'
<1> HIDE DEF a, u, g, h
<1>5. a \in Nat /\ u \in Nat /\ a <= u + g /\ g \in {0, 1} /\ h \in {0, 1} /\ (g = 1 => h = 1)
  BY <1>2, <1>3, <1>4 DEF a, u, g, h
<1>6. a <= u + h
  BY <1>5
<1> QED
  BY <1>1, <1>6 DEF a, u, h

-----------------------------------------------------------------------------
(* What keeps the outbox safe.                                              *)

LEMMA AttemptKeys ==
  ASSUME Standing, NEW a \in Elems(server.attempts)
  PROVE  a \in Entries /\ Key(a) \in Keys
BY WorkerFields, ElemsTypes, EntryFields DEF Standing, Types, Handy

(* A step that sends and records nothing, and takes up no attempt.          *)
LEMMA QuietStep ==
  ASSUME Standing, Safe, Grows, UNCHANGED << receipts, unsure >>,
         server.pc # "record", server'.pc # "record",
         Elems(server'.attempts) \subseteq Elems(server.attempts)
  PROVE  AttemptsOpen' /\ Accounted'
<1>1. ASSUME NEW a \in Elems(server'.attempts)
      PROVE  IsOpen(Key(a))'
  <2>1. a \in Elems(server.attempts) /\ Key(a) \in Keys
    BY <1>1, AttemptKeys
  <2>2. IsOpen(Key(a))
    BY <2>1 DEF Safe, AttemptsOpen
  <2> QED
    BY <2>1, <2>2 DEF Grows
<1>2. \A k \in Keys : IsDelivered(k) \/ Recording(k) => IsDelivered(k)' \/ Recording(k)'
  BY DEF Grows, Recording
<1>3. Accounted'
  BY <1>2, AccountedFrame DEF Safe
<1> QED
  BY <1>1, <1>3 DEF AttemptsOpen

LEMMA NoAttempts == ASSUME server'.attempts = << >> PROVE Elems(server'.attempts) = {}
BY DEF Elems

LEMMA NothingDue == ASSUME server'.due = {} PROVE StartKnows'
BY DEF StartKnows

LEMMA InitSafe == Init => Safe
<1> SUFFICES ASSUME Init PROVE Safe
  OBVIOUS
<1>1. server = Free /\ outbox = << >> /\ receipts = << >> /\ unsure = [k \in Keys |-> 0]
  BY DEF Init
<1>2. server.pc = "ready" /\ server.attempts = << >> /\ server.due = {}
  BY <1>1, FreeFields
<1>3. CopyIsFresh /\ AttemptsOpen /\ StartKnows
  BY <1>2 DEF CopyIsFresh, Preparing, AttemptsOpen, Elems, StartKnows
<1>4. ASSUME NEW k \in Keys PROVE ReceiptsOf(k) <= unsure[k] + Granted(k)
  <2>1. {i \in DOMAIN receipts : Key(receipts[i]) = k} = {}
    BY <1>1
  <2>2. ReceiptsOf(k) = 0
    BY <2>1, FS_EmptySet DEF ReceiptsOf
  <2>3. unsure[k] = 0 /\ Granted(k) \in {0, 1}
    BY <1>1 DEF Granted
  <2> QED
    BY <2>2, <2>3
<1> QED
  BY <1>3, <1>4 DEF Safe, Accounted

(* What the server has in hand does not change.                             *)
LEMMA SameServerSafe ==
  ASSUME Safe, UNCHANGED << setup, server, outbox, receipts, unsure, target >>
  PROVE  Safe'
BY DEF Safe, CopyIsFresh, AttemptsOpen, IsOpen, Accounted, StartKnows, IsDelivered, Granted,
       Recording, ReceiptsOf, Current

LEMMA DispatchSafe == ASSUME Standing, Safe, Dispatch PROVE Safe'
<1>1. server'.pc = "turn" /\ server'.attempts = << >> /\ server'.due = {}
  BY FreeHandy, Fields DEF Standing, Dispatch
<1>2. Grows /\ Elems(server'.attempts) = {}
  BY <1>1, SameElems, NoAttempts DEF Dispatch
<1>3. AttemptsOpen' /\ Accounted'
  BY <1>1, <1>2, QuietStep DEF Dispatch
<1>4. CopyIsFresh'
  BY <1>1 DEF CopyIsFresh, Preparing
<1> QED
  BY <1>1, <1>3, <1>4, NothingDue DEF Safe

LEMMA TurnSafe == ASSUME Standing, Safe, Turn PROVE Safe'
<1>1. /\ server'.attempts = << >> /\ server'.due = {}
      /\ \/ server'.pc = "ready"
         \/ server'.pc = "commit" /\ (~ setup.live => Elems(server'.copy) = Elems(outbox))
  <2>1. CASE TurnEnds(server')
    BY <2>1, TurnEndsKeeps DEF Standing
  <2>2. CASE server' = Free
    BY <2>2, FreeFields
  <2> QED
    BY <2>1, <2>2 DEF Turn
<1>2. Grows /\ Elems(server'.attempts) = {}
  BY <1>1, SameElems, NoAttempts DEF Turn
<1>3. AttemptsOpen' /\ Accounted'
  BY <1>1, <1>2, QuietStep DEF Turn
<1>4. CopyIsFresh'
  BY <1>1 DEF CopyIsFresh, Preparing, Turn
<1> QED
  BY <1>1, <1>3, <1>4, NothingDue DEF Safe

(* Live objects are the outbox itself.                                      *)
LEMMA ServerKnows ==
  ASSUME Standing, Safe, server.pc \in Preparing
  PROVE  Elems(Known(server)) = Elems(outbox)
BY DEF Safe, CopyIsFresh, Known

LEMMA ServerUpsertSafe == ASSUME Standing, Safe, ServerUpsert PROVE Safe'
<1> DEFINE e == EntryToWrite(server)
<1>1. Handy(server, written, target) /\ server.todo # << >> /\ server.pc \in Preparing
  BY DEF Standing, Types, ServerUpsert, Handy
<1>2. Elems(Known(server)) = Elems(outbox)
  BY <1>1, ServerKnows
<1>3. /\ Grows
      /\ \A k \in Keys : k = << Head(server.todo), target >> => IsOpen(k)' \/ IsDelivered(k)'
  BY <1>1, <1>2, UpsertGrows DEF ServerUpsert
<1>4. /\ server'.pc = server.pc /\ server'.attempts = server.attempts
      /\ server'.due = server.due /\ server'.todo = Tail(server.todo)
      /\ ~ setup.live =>
           Elems(server'.copy) = {x \in Elems(server.copy) : Key(x) # Key(e)} \cup {e}
  BY <1>1, UpsertedKeeps DEF Standing, ServerUpsert
<1>5. Elems(outbox') = {x \in Elems(outbox) : Key(x) # Key(e)} \cup {e}
  BY <1>1, EntryToWriteKeeps, WithEntryKeeps DEF Standing, Types, ServerUpsert
<1> HIDE DEF e
<1>6. AttemptsOpen' /\ Accounted'
  BY <1>1, <1>3, <1>4, QuietStep DEF ServerUpsert, Preparing
<1>7. CopyIsFresh'
  BY <1>1, <1>4, <1>5 DEF Safe, CopyIsFresh, ServerUpsert
<1>8. ASSUME NEW k \in server.due, server.pc = "list"
      PROVE  \/ IsDelivered(k)' \/ IsOpen(k)'
             \/ k[2] = target /\ k[1] \in Elems(Tail(server.todo))
  <2>1. server.due \in SUBSET Keys /\ server.todo \in Seq(Messages)
    BY <1>1, WorkerFields DEF Handy
  <2>2. k \in Keys /\ k = << k[1], k[2] >>
    BY <2>1, <1>8 DEF Keys
  <2>3. IsDelivered(k) \/ IsOpen(k) \/ (k[2] = target /\ k[1] \in Elems(server.todo))
    BY <1>8 DEF Safe, StartKnows
  <2>4. CASE IsDelivered(k) \/ IsOpen(k)
    BY <1>3, <2>2, <2>4 DEF Grows
  <2>5. CASE k[2] = target /\ k[1] \in Elems(server.todo)
    <3>1. k[1] = Head(server.todo) \/ k[1] \in Elems(Tail(server.todo))
      BY <1>1, <2>1, <2>5, TailElems
    <3>2. CASE k[1] = Head(server.todo)
      <4>1. k = << Head(server.todo), target >>
        BY <2>2, <2>5, <3>2
      <4> QED
        BY <1>3, <2>2, <4>1
    <3> QED
      BY <2>5, <3>1, <3>2
  <2> QED
    BY <2>3, <2>4, <2>5
<1>9. StartKnows'
  BY <1>1, <1>4, <1>8 DEF StartKnows, ServerUpsert, Preparing, Sending
<1> QED
  BY <1>6, <1>7, <1>9 DEF Safe

(* A turn outside the server works with live objects.                       *)
LEMMA BackgroundUpsertSafe ==
  ASSUME Standing, NoStaleCopies, Safe, BackgroundUpsert PROVE Safe'
<1>1. Handy(back, written, target) /\ back.todo # << >> /\ back.pc = "commit"
  BY DEF Standing, Types, Phases, BackgroundUpsert, Handy, Preparing
<1>2. setup.live
  BY <1>1 DEF NoStaleCopies, Standing, Phases
<1>3. Elems(Known(back)) = Elems(outbox)
  BY <1>2 DEF Known
<1>4. Grows
  BY <1>1, <1>3, UpsertGrows DEF BackgroundUpsert
<1>5. server' = server /\ target' = target /\ receipts' = receipts /\ unsure' = unsure
      /\ setup' = setup
  BY DEF BackgroundUpsert
<1>6. \A k \in Keys : Recording(k)' <=> Recording(k)
  BY <1>5 DEF Recording, Current
<1>7. Accounted'
  BY <1>4, <1>5, <1>6, AccountedFrame DEF Safe, Grows
<1>8. AttemptsOpen'
  <2> SUFFICES ASSUME NEW a \in Elems(server.attempts) PROVE IsOpen(Key(a))'
    BY <1>5 DEF AttemptsOpen
  <2>1. Key(a) \in Keys /\ IsOpen(Key(a))
    BY AttemptKeys DEF Safe, AttemptsOpen
  <2> QED
    BY <1>4, <2>1 DEF Grows
<1>9. CopyIsFresh'
  BY <1>2, <1>5 DEF CopyIsFresh
<1>10. StartKnows'
  <2> SUFFICES ASSUME NEW k \in server.due
               PROVE  /\ server.pc = "ready" => IsDelivered(k)'
                      /\ server.pc = "list" =>
                           \/ IsDelivered(k)' \/ IsOpen(k)'
                           \/ k[2] = target /\ k[1] \in Elems(server.todo)
                      /\ server.pc \in {"deliver"} \cup Sending =>
                           IsDelivered(k)' \/ \E a \in Elems(server.attempts) : Key(a) = k
    BY <1>5 DEF StartKnows
  <2>1. k \in Keys
    BY WorkerFields DEF Standing, Types, Handy
  <2> QED
    BY <1>4, <2>1 DEF Safe, StartKnows, Grows
<1> QED
  BY <1>7, <1>8, <1>9, <1>10 DEF Safe

LEMMA CommitSafe == ASSUME Standing, Safe, Commit PROVE Safe'
<1>1. server'.pc = "read" /\ server'.attempts = server.attempts /\ server'.due = server.due
  BY DEF Commit, Standing, Types, Handy, Workers
<1>2. AttemptsOpen' /\ Accounted'
  BY <1>1, SameElems, QuietStep DEF Commit
<1>3. CopyIsFresh'
  BY <1>1 DEF CopyIsFresh, Preparing
<1>4. StartKnows'
  BY <1>1 DEF StartKnows, Sending
<1> QED
  BY <1>2, <1>3, <1>4 DEF Safe

LEMMA PrepareSafe == ASSUME Standing, Safe, Prepare PROVE Safe'
<1>1. PICK read \in ReadOutbox :
        server' = [server EXCEPT !.pc = "prepare", !.copy = read,
                                 !.todo = Pending(server.session)]
  BY DEF Prepare
<1>2. server'.pc = "prepare" /\ server'.attempts = server.attempts /\ server'.copy = read
  BY <1>1 DEF Standing, Types, Handy, Workers
<1>3. AttemptsOpen' /\ Accounted'
  BY <1>2, SameElems, QuietStep DEF Prepare
<1>4. CopyIsFresh'
  BY <1>2, ReadKeeps DEF CopyIsFresh, Standing, Prepare
<1>5. StartKnows'
  BY <1>2 DEF StartKnows, Sending
<1> QED
  BY <1>3, <1>4, <1>5 DEF Safe

(* What is about to be sent is open.                                        *)
LEMMA OnlyOpenAttempts ==
  ASSUME Standing, Elems(server'.attempts) \subseteq {e \in Elems(outbox) : Retryable(e)},
         outbox' = outbox
  PROVE  AttemptsOpen'
BY DEF AttemptsOpen, IsOpen, Retryable

LEMMA PreparedSafe == ASSUME Standing, Safe, Prepared PROVE Safe'
<1>1. server'.pc = "deliver" /\ server'.due = {} /\ server'.attempts = Attempts(server)
  BY PreparedStands DEF Prepared, Free
<1>2. Elems(Known(server)) = Elems(outbox)
  BY ServerKnows DEF Prepared, Preparing
<1>3. \A a \in Elems(Attempts(server)) : a \in Elems(Known(server)) /\ Retryable(a)
  BY AttemptsKeep DEF Standing, Types
<1>4. AttemptsOpen'
  BY <1>1, <1>2, <1>3, OnlyOpenAttempts DEF Prepared
<1>5. \A k \in Keys : IsDelivered(k) \/ Recording(k) => IsDelivered(k)' \/ Recording(k)'
  BY DEF Prepared, Recording, IsDelivered
<1>6. Accounted'
  BY <1>5, AccountedFrame DEF Safe, Prepared
<1>7. CopyIsFresh'
  BY <1>1 DEF CopyIsFresh, Preparing
<1> QED
  BY <1>1, <1>4, <1>6, <1>7, NothingDue DEF Safe

LEMMA ListPendingSafe == ASSUME Standing, Safe, ListPending PROVE Safe'
<1>1. /\ server'.pc = "deliver" /\ server'.due = server.due
      /\ Elems(server'.attempts) = {e \in Elems(outbox) : Retryable(e)}
  BY ListPendingStands
<1>2. outbox' = outbox /\ server.pc = "list" /\ server.todo = << >>
  BY DEF ListPending
<1>3. AttemptsOpen'
  BY <1>1, <1>2, OnlyOpenAttempts
<1>4. \A k \in Keys : IsDelivered(k) \/ Recording(k) => IsDelivered(k)' \/ Recording(k)'
  BY <1>2 DEF Recording, IsDelivered
<1>5. Accounted'
  BY <1>4, AccountedFrame DEF Safe, ListPending
<1>6. CopyIsFresh'
  BY <1>1 DEF CopyIsFresh, Preparing
<1>7. ASSUME NEW k \in server.due
      PROVE  IsDelivered(k)' \/ \E a \in Elems(server'.attempts) : Key(a) = k
  <2>1. IsDelivered(k) \/ IsOpen(k)
    BY <1>2, <1>7 DEF Safe, StartKnows, Elems
  <2>2. CASE IsDelivered(k)
    BY <1>2, <2>2 DEF IsDelivered
  <2>3. CASE IsOpen(k)
    <3>1. PICK e \in Elems(outbox) : Key(e) = k /\ e.status # "delivered"
      BY <2>3 DEF IsOpen
    <3>2. e.status \in Statuses
      BY ElemsTypes, EntryFields DEF Standing, Types
    <3>3. Retryable(e)
      BY <3>1, <3>2 DEF Retryable, Statuses
    <3> QED
      BY <1>1, <3>1, <3>3
  <2> QED
    BY <2>1, <2>2, <2>3
<1>8. StartKnows'
  BY <1>1, <1>7 DEF StartKnows
<1> QED
  BY <1>3, <1>5, <1>6, <1>8 DEF Safe

(* The reply the server is at is open.                                      *)
LEMMA CurrentOpen ==
  ASSUME Standing, Safe, server.attempts # << >>
  PROVE  /\ Current \in Elems(server.attempts) /\ Key(Current) \in Keys
         /\ IsOpen(Key(Current)) /\ ~ IsDelivered(Key(Current))
<1>1. Current \in Elems(server.attempts) /\ Key(Current) \in Keys
  BY CurrentFields
<1>2. IsOpen(Key(Current))
  BY <1>1 DEF Safe, AttemptsOpen
<1> QED
  BY <1>1, <1>2, OpenOrDelivered

LEMMA DeliveringSafe == ASSUME Standing, Safe, Delivering PROVE Safe'
<1>1. server'.pc = "send" /\ server'.attempts = server.attempts /\ server'.due = server.due
  BY DeliveringStands
<1>2. IsOpen(Key(Current))
  BY CurrentOpen DEF Delivering
<1>3. Grows
  BY <1>2, MarkOpen DEF Delivering, Statuses
<1>4. AttemptsOpen' /\ Accounted'
  BY <1>1, <1>3, QuietStep DEF Delivering
<1>5. CopyIsFresh'
  BY <1>1 DEF CopyIsFresh, Preparing
<1>6. ASSUME NEW k \in server.due
      PROVE  IsDelivered(k)' \/ \E a \in Elems(server.attempts) : Key(a) = k
  <2>1. k \in Keys
    BY <1>6, WorkerFields DEF Standing, Types, Handy
  <2>2. IsDelivered(k) \/ \E a \in Elems(server.attempts) : Key(a) = k
    BY <1>6 DEF Safe, StartKnows, Delivering
  <2> QED
    BY <1>3, <2>1, <2>2 DEF Grows
<1>7. StartKnows'
  BY <1>1, <1>6 DEF StartKnows
<1> QED
  BY <1>4, <1>5, <1>7 DEF Safe

LEMMA DeliverSafe == ASSUME Standing, Safe, Deliver PROVE Safe'
<1>1. /\ server'.pc \in {"record", "fail"} /\ server'.attempts = server.attempts
      /\ server'.due = server.due /\ server.attempts # << >> /\ server.pc = "send"
  BY DeliverStands DEF Deliver
<1>2. outbox' = outbox /\ Current' = Current
  BY <1>1 DEF Deliver, Current
<1>3. Key(Current) \in Keys /\ ~ IsDelivered(Key(Current))
  BY <1>1, CurrentOpen
<1>4. AttemptsOpen'
  BY <1>1, <1>2 DEF Safe, AttemptsOpen, IsOpen
<1>5. ASSUME NEW k \in Keys PROVE ReceiptsOf(k)' <= unsure[k]' + Granted(k)'
  <2> DEFINE a == ReceiptsOf(k)
             b == ReceiptsOf(k)'
             u == unsure[k]
             v == unsure'[k]
             g == Granted(k)
             h == Granted(k)'
  <2>1. a \in Nat /\ u \in Nat /\ a <= u + g
    BY ReceiptsNat DEF Safe, Accounted
  <2>2. g = IF IsDelivered(k) THEN 1 ELSE 0
    BY <1>1 DEF Granted, Recording
  <2>3. h = IF IsDelivered(k) \/ (server'.pc = "record" /\ Key(Current) = k) THEN 1 ELSE 0
    BY <1>2 DEF Granted, Recording, IsDelivered
  <2>4. k = Key(Current) => g = 0
    BY <1>3, <2>2
  <2>5. \/ /\ b = IF k = Key(Current) THEN a + 1 ELSE a
           /\ v = u /\ server'.pc = "record"
        \/ /\ b = IF k = Key(Current) THEN a + 1 ELSE a
           /\ v = IF k = Key(Current) THEN u + 1 ELSE u
        \/ b = a /\ v = u
    <3>1. CASE Received
      <4>1. b = IF k = Key(Current) THEN a + 1 ELSE a
        BY <1>1, <3>1, ReceiptCounted
      <4>2. CASE unsure' = unsure /\ server'.pc = "record"
        BY <4>1, <4>2
      <4>3. CASE unsure' = [unsure EXCEPT ![Key(Current)] = @ + 1]
        <5>1. v = IF k = Key(Current) THEN u + 1 ELSE u
          BY <4>3 DEF Standing, Types
        <5> QED
          BY <4>1, <5>1
      <4>4. CASE UNCHANGED << receipts, unsure >>
        BY <4>4 DEF ReceiptsOf
      <4> QED
        BY <1>1, <4>2, <4>3, <4>4 DEF Deliver, Standing, Types, Handy, Workers
    <3>2. CASE ~ Received
      BY <3>2 DEF Deliver, ReceiptsOf
    <3> QED
      BY <3>1, <3>2
  <2>6. g \in {0, 1} /\ h \in {0, 1} /\ (g = 1 => h = 1)
        /\ (k = Key(Current) /\ server'.pc = "record" => h = 1)
    BY <2>2, <2>3
  <2> HIDE DEF a, b, u, v, g, h
  <2>7. b <= v + h
    <3>1. CASE k # Key(Current)
      BY <2>1, <2>5, <2>6, <3>1
    <3>2. CASE k = Key(Current)
      BY <2>1, <2>4, <2>5, <2>6, <3>2
    <3> QED
      BY <3>1, <3>2
  <2> QED
    BY <2>7 DEF b, v, h
<1>6. CopyIsFresh'
  BY <1>1 DEF CopyIsFresh, Preparing
<1>7. StartKnows'
  BY <1>1, <1>2 DEF Safe, StartKnows, IsDelivered, Sending
<1> QED
  BY <1>4, <1>5, <1>6, <1>7 DEF Safe, Accounted

LEMMA DeliveredSafe == ASSUME Standing, Safe, Delivered PROVE Safe'
<1>1. /\ server'.pc = "deliver" /\ server'.attempts = Tail(server.attempts)
      /\ server'.due = server.due /\ server.attempts # << >> /\ server.pc = "record"
  BY DeliveredStands DEF Delivered
<1>2. Key(Current) \in Keys /\ IsOpen(Key(Current))
  BY <1>1, CurrentOpen
<1>3. /\ \A j \in Keys : IsDelivered(j)' <=> IsDelivered(j) \/ j = Key(Current)
      /\ \A j \in Keys : IsOpen(j) /\ j # Key(Current) => IsOpen(j)'
  BY <1>2, MarkDelivered DEF Delivered
<1>4. /\ server.attempts \in Seq(Entries)
      /\ Elems(server.attempts) = {Current} \cup Elems(Tail(server.attempts))
      /\ \A a \in Elems(Tail(server.attempts)) : Key(a) # Key(Current)
  BY <1>1, WorkerFields, TailElems, TailUnique DEF Standing, Types, Handy, Current
<1>5. ASSUME NEW a \in Elems(server'.attempts) PROVE IsOpen(Key(a))'
  <2>1. a \in Elems(server.attempts) /\ Key(a) # Key(Current)
    BY <1>1, <1>4
  <2>2. Key(a) \in Keys /\ IsOpen(Key(a))
    BY <2>1, AttemptKeys DEF Safe, AttemptsOpen
  <2> QED
    BY <1>3, <2>1, <2>2
<1>6. \A k \in Keys : IsDelivered(k) \/ Recording(k) => IsDelivered(k)' \/ Recording(k)'
  BY <1>3 DEF Recording
<1>7. Accounted'
  BY <1>6, AccountedFrame DEF Safe, Delivered
<1>8. CopyIsFresh'
  BY <1>1 DEF CopyIsFresh, Preparing
<1>9. ASSUME NEW k \in server.due
      PROVE  IsDelivered(k)' \/ \E a \in Elems(Tail(server.attempts)) : Key(a) = k
  <2>1. k \in Keys
    BY <1>9, WorkerFields DEF Standing, Types, Handy
  <2>2. IsDelivered(k) \/ \E a \in Elems(server.attempts) : Key(a) = k
    BY <1>1, <1>9 DEF Safe, StartKnows, Sending
  <2> QED
    BY <1>3, <1>4, <2>1, <2>2
<1>10. StartKnows'
  BY <1>1, <1>9 DEF StartKnows
<1> QED
  BY <1>5, <1>7, <1>8, <1>10 DEF Safe, AttemptsOpen

LEMMA FailedSafe == ASSUME Standing, Safe, Failed PROVE Safe'
<1>1. server'.pc = "ready" /\ server'.attempts = << >> /\ server'.due = {}
  BY FreeFields DEF Failed
<1>2. server.attempts # << >>
  BY DEF Standing, Phases, Failed, Sending
<1>3. Grows
  BY <1>2, CurrentOpen, MarkOpen DEF Failed, Statuses
<1>4. AttemptsOpen' /\ Accounted'
  BY <1>1, <1>3, NoAttempts, QuietStep DEF Failed
<1>5. CopyIsFresh'
  BY <1>1 DEF CopyIsFresh, Preparing
<1> QED
  BY <1>1, <1>4, <1>5, NothingDue DEF Safe

LEMMA AllDeliveredSafe == ASSUME Standing, Safe, AllDelivered PROVE Safe'
<1>1. /\ server'.pc = "ready" /\ server'.attempts = << >> /\ server'.due = server.due
      /\ server.pc = "deliver" /\ server.attempts = << >>
  BY AllDeliveredStands DEF AllDelivered
<1>2. Grows
  BY SameElems DEF AllDelivered
<1>3. AttemptsOpen' /\ Accounted'
  BY <1>1, <1>2, QuietStep DEF AllDelivered
<1>4. CopyIsFresh'
  BY <1>1 DEF CopyIsFresh, Preparing
<1>5. ASSUME NEW k \in server.due PROVE IsDelivered(k)'
  <2>1. k \in Keys
    BY <1>5, WorkerFields DEF Standing, Types, Handy
  <2>2. IsDelivered(k)
    BY <1>1, <1>5 DEF Safe, StartKnows, Elems
  <2> QED
    BY <1>2, <2>1, <2>2 DEF Grows
<1>6. StartKnows'
  BY <1>1, <1>5 DEF StartKnows, Sending
<1> QED
  BY <1>3, <1>4, <1>6 DEF Safe

(* A crash turns a receipt that was about to be recorded into one that the  *)
(* outbox could not record.                                                 *)
LEMMA CrashSafe == ASSUME Standing, Safe, Crash PROVE Safe'
<1>1. server'.pc = "ready" /\ server'.attempts = << >> /\ server'.due = {}
  BY FreeFields DEF Crash
<1>2. Elems(outbox') = Elems(outbox)
  BY SortedKeeps DEF Standing, Types, Crash
<1>3. ASSUME NEW k \in Keys PROVE ReceiptsOf(k)' <= unsure[k]' + Granted(k)'
  <2> DEFINE a == ReceiptsOf(k)
             u == unsure[k]
             v == unsure'[k]
             g == Granted(k)
             h == Granted(k)'
  <2>1. a \in Nat /\ u \in Nat /\ a <= u + g
    BY ReceiptsNat DEF Safe, Accounted
  <2>2. ReceiptsOf(k)' = a
    BY DEF Crash, ReceiptsOf
  <2>3. h = IF IsDelivered(k) THEN 1 ELSE 0
    BY <1>1, <1>2 DEF Granted, Recording, IsDelivered
  <2>4. g = IF IsDelivered(k) \/ Recording(k) THEN 1 ELSE 0
    BY DEF Granted
  <2>5. v = IF Recording(k) THEN u + 1 ELSE u
    <3>1. CASE server.pc = "record"
      <4>1. unsure' = [unsure EXCEPT ![Key(Current)] = @ + 1]
        BY <3>1 DEF Crash
      <4> QED
        BY <3>1, <4>1 DEF Recording, Standing, Types
    <3>2. CASE server.pc # "record"
      BY <3>2 DEF Crash, Recording
    <3> QED
      BY <3>1, <3>2
  <2> HIDE DEF a, u, v, g, h
  <2>6. a <= v + h
    BY <2>1, <2>3, <2>4, <2>5
  <2> QED
    BY <2>2, <2>6 DEF v, h
<1>4. AttemptsOpen'
  BY <1>1, NoAttempts DEF AttemptsOpen
<1>5. CopyIsFresh'
  BY <1>1 DEF CopyIsFresh, Preparing
<1> QED
  BY <1>1, <1>3, <1>4, <1>5, NothingDue DEF Safe, Accounted

LEMMA RestartSafe == ASSUME Standing, Safe, Restart PROVE Safe'
<1>1. server'.pc = "start" /\ server'.attempts = << >> /\ server'.due = {}
  BY FreeHandy, Fields DEF Standing, Restart
<1>2. server.pc = "ready"
  BY DEF Standing, Phases, Restart
<1>3. AttemptsOpen' /\ Accounted'
  BY <1>1, <1>2, SameElems, NoAttempts, QuietStep DEF Restart
<1>4. CopyIsFresh'
  BY <1>1 DEF CopyIsFresh, Preparing
<1> QED
  BY <1>1, <1>3, <1>4, NothingDue DEF Safe

LEMMA MaterializeSafe == ASSUME Standing, Safe, Materialize PROVE Safe'
<1>1. /\ server'.pc = "list" /\ server'.attempts = << >>
      /\ server'.due = {k \in Keys : \/ Status(k) \notin {"none", "delivered"}
                                     \/ k \in (DOMAIN Visible) \X {target}}
      /\ target \in Targets => Elems(server'.todo) = DOMAIN Visible
      /\ ~ setup.live => Elems(server'.copy) = Elems(outbox)
  BY MaterializeStands
<1>2. outbox' = outbox /\ target' = target /\ setup' = setup /\ server.pc = "start"
  BY DEF Materialize
<1>3. AttemptsOpen' /\ Accounted'
  BY <1>1, <1>2, SameElems, NoAttempts, QuietStep DEF Materialize
<1>4. CopyIsFresh'
  BY <1>1, <1>2 DEF CopyIsFresh
<1>5. ASSUME NEW k \in server'.due
      PROVE  \/ IsDelivered(k)' \/ IsOpen(k)'
             \/ k[2] = target /\ k[1] \in Elems(server'.todo)
  <2>1. k \in Keys /\ (Status(k) # "none" \/ k \in (DOMAIN Visible) \X {target})
    BY <1>1, <1>5
  <2>2. CASE Status(k) # "none"
    <3>1. IsDelivered(k) \/ IsOpen(k)
      BY <2>2, OpenOrDelivered
    <3> QED
      BY <1>2, <3>1 DEF IsDelivered, IsOpen
  <2>3. CASE k \in (DOMAIN Visible) \X {target}
    <3>1. k[1] \in DOMAIN Visible /\ k[2] = target /\ k[2] \in Targets
      BY <2>1, <2>3 DEF Keys
    <3> QED
      BY <1>1, <3>1
  <2> QED
    BY <2>1, <2>2, <2>3
<1>6. StartKnows'
  BY <1>1, <1>2, <1>5 DEF StartKnows, Sending
<1> QED
  BY <1>3, <1>4, <1>6 DEF Safe

LEMMA NextSafe ==
  ASSUME Standing, NoStaleCopies, Safe, [Next]_vars
  PROVE  Safe'
<1>1. CASE Dispatch \/ Turn
  BY <1>1, DispatchSafe, TurnSafe
<1>2. CASE BackgroundTurn \/ BackgroundCommit \/ UNCHANGED vars
  BY <1>2, SameServerSafe DEF BackgroundTurn, BackgroundCommit, vars
<1>3. CASE ServerUpsert \/ BackgroundUpsert
  BY <1>3, ServerUpsertSafe, BackgroundUpsertSafe
<1>4. CASE Commit \/ Prepare \/ Prepared
  BY <1>4, CommitSafe, PrepareSafe, PreparedSafe
<1>5. CASE Delivering \/ Deliver \/ Delivered
  BY <1>5, DeliveringSafe, DeliverSafe, DeliveredSafe
<1>6. CASE Failed \/ AllDelivered
  BY <1>6, FailedSafe, AllDeliveredSafe
<1>7. CASE Materialize \/ ListPending
  BY <1>7, MaterializeSafe, ListPendingSafe
<1>8. CASE Crash \/ Restart
  BY <1>8, CrashSafe, RestartSafe
<1> QED
  BY <1>1, <1>2, <1>3, <1>4, <1>5, <1>6, <1>7, <1>8
     DEF Next, ServerStep, BackgroundStep

LEMMA SetupKept == [Next]_vars => setup' = setup
BY DEF Next, Dispatch, ServerStep, BackgroundStep, Turn, ServerUpsert, Commit, Prepare,
       Prepared, Delivering, Deliver, Delivered, Failed, AllDelivered, Materialize,
       ListPending, BackgroundTurn, BackgroundUpsert, BackgroundCommit, Crash, Restart,
       vars

LEMMA NextIInv == IInv /\ [Next]_vars => IInv'
<1> SUFFICES ASSUME IInv, [Next]_vars PROVE IInv'
  OBVIOUS
<1>1. NoStaleCopies' <=> NoStaleCopies
  BY SetupKept DEF NoStaleCopies
<1>2. Standing'
  BY NextStands DEF IInv
<1>3. NoStaleCopies => Safe'
  BY NextSafe DEF IInv
<1> QED
  BY <1>1, <1>2, <1>3 DEF IInv

(* As long as no stale copy is written back, what is to be sent is open, a  *)
(* receipt is recorded or accounted for, and a start loses track of nothing *)
(* it found due.                                                            *)
THEOREM OutboxInvariant == Spec => []IInv
<1>1. Init => IInv
  BY InitStanding, InitSafe DEF IInv
<1> QED
  BY <1>1, NextIInv, PTL DEF Spec

(* A reply is received again only when the outbox could not record that it  *)
(* was received: after a crash in between, or a delivery that was reported  *)
(* as failed (markAssistantDelivery, prepareAssistantDeliveries).           *)
THEOREM OutboxRecordedOnce == Spec => []RecordedOnce
<1>1. ASSUME IInv, NoStaleCopies, NEW k \in Keys
      PROVE  ReceiptsOf(k) <= 1 + unsure[k]
  <2>1. Standing /\ Safe
    BY <1>1 DEF IInv
  <2>2. ReceiptsOf(k) \in Nat /\ unsure[k] \in Nat
    BY <2>1, ReceiptsNat
  <2>3. ReceiptsOf(k) <= unsure[k] + Granted(k) /\ Granted(k) \in {0, 1}
    BY <2>1 DEF Safe, Accounted, Granted
  <2> QED
    BY <2>2, <2>3
<1>2. IInv => RecordedOnce
  BY <1>1 DEF RecordedOnce, ReceivedOnce
<1> QED
  BY <1>2, OutboxInvariant, PTL

(* A start delivers what was stored or in the outbox when it looked, before *)
(* the server takes events, unless a delivery fails (retryPendingDeliveries).*)
THEOREM OutboxStartDelivers == Spec => []StartDelivers
<1>1. ASSUME IInv, NoStaleCopies, server.pc = "ready", NEW k \in server.due
      PROVE  Status(k) = "delivered"
  <2>1. Standing /\ IsDelivered(k)
    BY <1>1 DEF IInv, Safe, StartKnows
  <2> QED
    BY <2>1, OpenOrDelivered
<1>2. IInv => StartDelivers
  BY <1>1 DEF StartDelivers
<1> QED
  BY <1>2, OutboxInvariant, PTL


-----------------------------------------------------------------------------
(* Replies in line.                                                         *)

LEMMA NoGapAdd ==
  ASSUME NEW K, NoGap(K), NEW k,
         \A i \in Messages : i < k[1] => << i, k[2] >> \in K
  PROVE  NoGap(K \cup {k})
BY DEF NoGap

LEMMA KeysAndDone ==
  ASSUME NEW s \in Seq(Entries)
  PROVE  DoneIn(s) \subseteq KeysIn(s) /\ KeysIn(s) \subseteq Keys
BY ElemsTypes, EntryFields DEF KeysIn, DoneIn

LEMMA SameLine ==
  ASSUME NEW s, NEW t, Elems(t) = Elems(s)
  PROVE  KeysIn(t) = KeysIn(s) /\ DoneIn(t) = DoneIn(s)
BY DEF KeysIn, DoneIn

LEMMA StatusInLine ==
  ASSUME NEW s \in Seq(Entries), Unique(s), NEW k
  PROVE  LET status == IF HasKey(s, k) THEN EntryOf(s, k).status ELSE "none" IN
           /\ status # "none" <=> k \in KeysIn(s)
           /\ status = "delivered" <=> k \in DoneIn(s)
<1> DEFINE status == IF HasKey(s, k) THEN EntryOf(s, k).status ELSE "none"
<1>1. CASE HasKey(s, k)
  <2> DEFINE e == EntryOf(s, k)
  <2>1. e \in Elems(s) /\ Key(e) = k
    BY <1>1, EntryFound
  <2>2. e.status \in Statuses /\ e.status # "none"
    BY <2>1, ElemsTypes, EntryFields DEF Statuses
  <2>3. status = e.status
    BY <1>1
  <2> HIDE DEF e, status
  <2>4. k \in KeysIn(s)
    BY <2>1 DEF KeysIn
  <2>5. e.status = "delivered" => k \in DoneIn(s)
    BY <2>1 DEF DoneIn
  <2>6. k \in DoneIn(s) => e.status = "delivered"
    BY <2>1, OnePerKey DEF DoneIn
  <2> QED
    BY <2>2, <2>3, <2>4, <2>5, <2>6 DEF status
<1>2. CASE ~ HasKey(s, k)
  <2>1. k \notin KeysIn(s)
    BY <1>2, EntryFound DEF KeysIn
  <2>2. k \notin DoneIn(s)
    BY <2>1, KeysAndDone
  <2>3. status = "none"
    BY <1>2
  <2> QED
    BY <2>1, <2>2, <2>3
<1> QED
  BY <1>1, <1>2

LEMMA SkipsNoneLater ==
  ASSUME NEW todo, NEW to, NEW K, SkipsNone(todo, to, K), NEW L, K \subseteq L
  PROVE  SkipsNone(todo, to, L)
BY DEF SkipsNone

LEMMA SkipsNoneEmpty == \A to, K : SkipsNone(<< >>, to, K)
BY DEF SkipsNone

LEMMA SkipsNoneTail ==
  ASSUME NEW todo \in Seq(Messages), todo # << >>, NEW to, NEW K,
         SkipsNone(todo, to, K), NEW L, K \subseteq L, << Head(todo), to >> \in L
  PROVE  /\ \A i \in Messages : i < Head(todo) => << i, to >> \in K
         /\ SkipsNone(Tail(todo), to, L)
<1> DEFINE n == Len(todo)
           t == Tail(todo)
<1>1. /\ n \in Nat /\ n # 0 /\ DOMAIN todo = 1 .. n /\ DOMAIN t = 1 .. n - 1
      /\ Head(todo) = todo[1] /\ \A i \in 1 .. n - 1 : t[i] = todo[i + 1]
  OBVIOUS
<1> HIDE DEF n, t
<1>2. \A i \in Messages : i < Head(todo) => << i, to >> \in K
  <2>1. 1 \in 1 .. n /\ ~ \E l \in 1 .. n : l < 1
    BY <1>1
  <2> QED
    BY <1>1, <2>1 DEF SkipsNone
<1>3. ASSUME NEW j \in 1 .. n - 1, NEW i \in Messages, i < t[j]
      PROVE  << i, to >> \in L \/ \E l \in 1 .. n - 1 : l < j /\ t[l] = i
  <2>1. j + 1 \in 1 .. n /\ t[j] = todo[j + 1]
    BY <1>1
  <2>2. << i, to >> \in K \/ \E l \in 1 .. n : l < j + 1 /\ todo[l] = i
    BY <1>1, <1>3, <2>1 DEF SkipsNone
  <2>3. ASSUME NEW l \in 1 .. n, l < j + 1, todo[l] = i
        PROVE  << i, to >> \in L \/ \E m \in 1 .. n - 1 : m < j /\ t[m] = i
    <3>1. CASE l = 1
      BY <1>1, <2>3, <3>1
    <3>2. CASE l # 1
      <4>1. l - 1 \in 1 .. n - 1 /\ l - 1 < j /\ (l - 1) + 1 = l
        BY <1>1, <2>3, <3>2
      <4>2. t[l - 1] = i
        BY <1>1, <2>3, <4>1
      <4> QED
        BY <4>1, <4>2
    <3> QED
      BY <3>1, <3>2
  <2> QED
    BY <2>2, <2>3
<1>4. SkipsNone(t, to, L)
  BY <1>1, <1>3 DEF SkipsNone
<1> QED
  BY <1>2, <1>4 DEF t

LEMMA IndexesSkipNone ==
  ASSUME NEW s \in Seq(Messages), NEW to, NEW K
  PROVE  SkipsNone(Indexes(s), to, K)
<1>1. DOMAIN Indexes(s) = DOMAIN s /\ \A i \in DOMAIN s : Indexes(s)[i] = i
  BY DEF Indexes
<1>2. DOMAIN s = 1 .. Len(s) /\ Len(s) \in Nat
  OBVIOUS
<1>3. \A j \in DOMAIN s, i \in Messages : i < j => i \in DOMAIN s
  BY <1>2 DEF Messages
<1> QED
  BY <1>1, <1>3 DEF SkipsNone

LEMMA InTurnLater ==
  ASSUME NEW s, NEW K, InTurn(s, K), NEW L, K \subseteq L
  PROVE  InTurn(s, L)
BY DEF InTurn

LEMMA InTurnEmpty == \A K : InTurn(<< >>, K)
BY DEF InTurn

LEMMA InTurnTail ==
  ASSUME NEW s \in Seq(Entries), s # << >>, NEW K, InTurn(s, K),
         NEW L, K \subseteq L, Key(Head(s)) \in L
  PROVE  InTurn(Tail(s), L)
<1> DEFINE n == Len(s)
           t == Tail(s)
<1>1. /\ n \in Nat /\ n # 0 /\ DOMAIN s = 1 .. n /\ DOMAIN t = 1 .. n - 1
      /\ Head(s) = s[1] /\ \A i \in 1 .. n - 1 : t[i] = s[i + 1]
  OBVIOUS
<1> HIDE DEF n, t
<1>2. ASSUME NEW j \in 1 .. n - 1, NEW i \in Messages, i < t[j].index
      PROVE  \/ << i, t[j].target >> \in L
             \/ \E l \in 1 .. n - 1 : l < j /\ Key(t[l]) = << i, t[j].target >>
  <2> DEFINE k == << i, t[j].target >>
  <2>1. j + 1 \in 1 .. n /\ t[j] = s[j + 1]
    BY <1>1
  <2>2. k \in K \/ \E l \in 1 .. n : l < j + 1 /\ Key(s[l]) = k
    BY <1>1, <1>2, <2>1 DEF InTurn
  <2> HIDE DEF k
  <2>3. ASSUME NEW l \in 1 .. n, l < j + 1, Key(s[l]) = k
        PROVE  k \in L \/ \E m \in 1 .. n - 1 : m < j /\ Key(t[m]) = k
    <3>1. CASE l = 1
      BY <1>1, <2>3, <3>1
    <3>2. CASE l # 1
      <4>1. l - 1 \in 1 .. n - 1 /\ l - 1 < j /\ (l - 1) + 1 = l
        BY <1>1, <2>3, <3>2
      <4>2. Key(t[l - 1]) = k
        BY <1>1, <2>3, <4>1
      <4> QED
        BY <4>1, <4>2
    <3> QED
      BY <3>1, <3>2
  <2>4. k \in L \/ \E l \in 1 .. n - 1 : l < j /\ Key(t[l]) = k
    BY <2>2, <2>3
  <2> QED
    BY <2>4 DEF k
<1>3. InTurn(t, L)
  BY <1>1, <1>2 DEF InTurn
<1> QED
  BY <1>3 DEF t

(* The first reply to be sent is the next one its target waits for.         *)
LEMMA InTurnHead ==
  ASSUME NEW s \in Seq(Entries), s # << >>, NEW K, InTurn(s, K)
  PROVE  \A i \in Messages : i < Head(s).index => << i, Head(s).target >> \in K
<1>1. 1 \in DOMAIN s /\ Head(s) = s[1] /\ DOMAIN s = 1 .. Len(s) /\ Len(s) \in Nat
  OBVIOUS
<1>2. ~ \E l \in DOMAIN s : l < 1
  BY <1>1
<1> QED
  BY <1>1, <1>2 DEF InTurn

(* An ordered sequence skips nothing that it has.                           *)
LEMMA OrderedInTurn ==
  ASSUME NEW s \in Seq(Entries), InOrder(s), NEW K,
         \A e \in Elems(s), i \in Messages : i < e.index =>
           << i, e.target >> \in K \/ << i, e.target >> \in KeysIn(s)
  PROVE  InTurn(s, K)
<1> SUFFICES ASSUME NEW j \in DOMAIN s, NEW i \in Messages, i < s[j].index,
                    << i, s[j].target >> \notin K
             PROVE  \E l \in DOMAIN s : l < j /\ Key(s[l]) = << i, s[j].target >>
  BY DEF InTurn
<1>1. << i, s[j].target >> \in KeysIn(s)
  BY DEF Elems
<1>2. PICK l \in DOMAIN s : Key(s[l]) = << i, s[j].target >>
  BY <1>1 DEF KeysIn, Elems
<1>3. s[l].index = i /\ s[l].target = s[j].target
  BY <1>2 DEF Key
<1>4. j \in Nat /\ l \in Nat /\ s[j] \in Entries
  OBVIOUS
<1>5. s[j].index \in Nat /\ i \in Nat
  BY <1>4, EntryFields DEF Messages
<1>6. ~ j < l
  BY <1>3, <1>5 DEF InOrder
<1>7. l # j
  BY <1>3, <1>5
<1> QED
  BY <1>2, <1>4, <1>6, <1>7

LEMMA ThoseInOrder ==
  ASSUME NEW s \in Seq(Entries), InOrder(s), NEW chosen
  PROVE  InOrder(Those(s, chosen))
<1> DEFINE t == Those(s, chosen)
<1>1. t \in Seq(Entries) /\ \E p : Locates(p, t, s, chosen, Len(s))
  BY ThosePlaces
<1> HIDE DEF t
<1>2. PICK p : Locates(p, t, s, chosen, Len(s))
  BY <1>1
<1>3. DOMAIN t = 1 .. Len(t) /\ DOMAIN s = 1 .. Len(s)
  BY <1>1
<1>4. /\ \A i \in DOMAIN t : p[i] \in DOMAIN s /\ t[i] = s[p[i]]
      /\ \A i, j \in DOMAIN t : i < j => p[i] < p[j]
  BY <1>2, <1>3 DEF Locates
<1>5. InOrder(t)
  BY <1>4 DEF InOrder
<1> QED
  BY <1>5 DEF t

LEMMA SortedInOrder ==
  ASSUME NEW s \in Seq(Entries), NEW t \in Sorted(s)
  PROVE  InOrder(t)
<1>1. t \in Seq(Entries)
  BY SortedKeeps
<1>2. \A i \in DOMAIN t : t[i].target \in Nat /\ t[i].index \in Nat
  <2>1. \A i \in DOMAIN t : t[i] \in Entries
    BY <1>1
  <2>2. Targets \subseteq Nat /\ Messages \subseteq Nat
    BY OutboxAssumption DEF Messages
  <2> QED
    BY <2>1, <2>2, EntryFields
<1>3. \A i, j \in DOMAIN t : i < j => Before(t[i], t[j])
  BY DEF Sorted
<1> QED
  BY <1>2, <1>3 DEF InOrder, Before

LEMMA SameKeysInOrder ==
  ASSUME NEW s \in Seq(Entries), InOrder(s), NEW t \in Seq(Entries),
         DOMAIN t = DOMAIN s, \A i \in DOMAIN s : Key(t[i]) = Key(s[i])
  PROVE  InOrder(t)
<1>1. \A i \in DOMAIN s : t[i].index = s[i].index /\ t[i].target = s[i].target
  BY DEF Key
<1> QED
  BY <1>1 DEF InOrder

LEMMA WithEntryInOrder ==
  ASSUME NEW s \in Seq(Entries), Unique(s), InOrder(s), NoGap(KeysIn(s)),
         NEW e \in Entries
  PROVE  InOrder(WithEntry(s, e))
<1> DEFINE t == WithEntry(s, e)
<1>1. t \in Seq(Entries)
  BY WithEntryKeeps
<1>2. CASE HasKey(s, Key(e))
  <2>1. t = [i \in DOMAIN s |-> IF Key(s[i]) = Key(e) THEN e ELSE s[i]]
    BY <1>2 DEF WithEntry
  <2> HIDE DEF t
  <2>2. DOMAIN t = DOMAIN s /\ \A i \in DOMAIN s : Key(t[i]) = Key(s[i])
    BY <2>1
  <2> QED
    BY <1>1, <2>2, SameKeysInOrder DEF t
<1>3. CASE ~ HasKey(s, Key(e))
  <2> DEFINE n == Len(s)
  <2>1. t = Append(s, e)
    BY <1>3 DEF WithEntry
  <2>2. /\ n \in Nat /\ DOMAIN s = 1 .. n /\ DOMAIN t = 1 .. n \cup {n + 1}
        /\ t[n + 1] = e /\ \A i \in 1 .. n : t[i] = s[i] /\ s[i] \in Entries
    BY <2>1
  <2>3. Key(e) \notin KeysIn(s)
    BY <1>3, EntryFound DEF KeysIn
  <2> HIDE DEF n, t
  <2>4. ASSUME NEW p \in 1 .. n, s[p].target = e.target PROVE s[p].index < e.index
    <3>1. s[p] \in Entries /\ s[p] \in Elems(s)
      BY <2>2 DEF Elems
    <3>2. Key(s[p]) \in KeysIn(s) /\ Key(s[p]) = << s[p].index, e.target >>
      BY <2>4, <3>1 DEF KeysIn, Key
    <3>3. s[p].index \in Nat /\ e.index \in Nat /\ e.index \in Messages
      BY <3>1, EntryFields DEF Messages
    <3>4. Key(e) = << e.index, e.target >>
      BY DEF Key
    <3>5. ~ e.index < s[p].index
      BY <2>3, <3>2, <3>3, <3>4 DEF NoGap
    <3>6. e.index # s[p].index
      BY <2>3, <3>2, <3>4
    <3> QED
      BY <3>3, <3>5, <3>6
  <2>5. ASSUME NEW p \in DOMAIN t, NEW q \in DOMAIN t, p < q,
               t[p].target = t[q].target
        PROVE  t[p].index < t[q].index
    <3>1. p \in 1 .. n
      BY <2>2, <2>5
    <3>2. CASE q = n + 1
      BY <2>2, <2>4, <2>5, <3>1, <3>2
    <3>3. CASE q \in 1 .. n
      BY <2>2, <2>5, <3>1, <3>3 DEF InOrder
    <3> QED
      BY <2>2, <3>2, <3>3
  <2>6. InOrder(t)
    BY <2>5 DEF InOrder
  <2> QED
    BY <2>6 DEF t
<1> QED
  BY <1>2, <1>3

LEMMA MarkInLine ==
  ASSUME NEW s \in Seq(Entries), Unique(s), InOrder(s), NEW k, NEW st \in Statuses
  PROVE  /\ KeysIn(Mark(s, k, st)) = KeysIn(s) /\ InOrder(Mark(s, k, st))
         /\ st # "delivered" /\ k \notin DoneIn(s) =>
              DoneIn(Mark(s, k, st)) = DoneIn(s)
         /\ st = "delivered" /\ k \in KeysIn(s) =>
              DoneIn(Mark(s, k, st)) = DoneIn(s) \cup {k}
<1> DEFINE t == Mark(s, k, st)
           M(x) == IF Key(x) = k THEN [x EXCEPT !.status = st] ELSE x
<1>1. t \in Seq(Entries) /\ Elems(t) = {M(x) : x \in Elems(s)}
      /\ Elems(s) \subseteq Entries
  BY MarkKeeps, ElemsTypes
<1>2. \A x \in Entries : /\ Key(M(x)) = Key(x)
                         /\ Key(x) = k => M(x).status = st
                         /\ Key(x) # k => M(x) = x
  BY DEF Entries, Key
<1>3. DOMAIN t = DOMAIN s /\ \A i \in DOMAIN s : t[i] = M(s[i]) /\ s[i] \in Entries
  BY DEF Mark
<1> HIDE DEF t, M
<1>4. InOrder(t)
  BY <1>1, <1>2, <1>3, SameKeysInOrder
<1>5. KeysIn(t) = KeysIn(s)
  BY <1>1, <1>2 DEF KeysIn
<1>6. ASSUME st # "delivered", k \notin DoneIn(s)
      PROVE  DoneIn(t) = DoneIn(s)
  <2>1. \A x \in Elems(s) : x.status = "delivered" => Key(x) # k
    BY <1>6 DEF DoneIn
  <2>2. \A x \in Elems(s) : M(x).status = "delivered" <=> x.status = "delivered"
    BY <1>1, <1>2, <1>6, <2>1
  <2> QED
    BY <1>1, <1>2, <2>2 DEF DoneIn
<1>7. ASSUME st = "delivered", k \in KeysIn(s)
      PROVE  DoneIn(t) = DoneIn(s) \cup {k}
  <2>1. \A x \in Elems(s) :
          M(x).status = "delivered" <=> x.status = "delivered" \/ Key(x) = k
    BY <1>1, <1>2, <1>7
  <2>2. DoneIn(t) \subseteq DoneIn(s) \cup {k}
    BY <1>1, <1>2, <2>1 DEF DoneIn
  <2>3. DoneIn(s) \subseteq DoneIn(t)
    BY <1>1, <1>2, <2>1 DEF DoneIn
  <2>4. k \in DoneIn(t)
    BY <1>1, <1>2, <1>7, <2>1 DEF DoneIn, KeysIn
  <2> QED
    BY <2>2, <2>3, <2>4
<1> QED
  BY <1>4, <1>5, <1>6, <1>7 DEF t

LEMMA WithEntryInLine ==
  ASSUME NEW s \in Seq(Entries), Unique(s), NEW e \in Entries,
         e \in Elems(s) \/ e.status = "pending",
         (\E x \in Elems(s) : Key(x) = Key(e)) => e \in Elems(s)
  PROVE  /\ KeysIn(WithEntry(s, e)) = KeysIn(s) \cup {Key(e)}
         /\ DoneIn(WithEntry(s, e)) = DoneIn(s)
<1>1. Elems(WithEntry(s, e)) = {x \in Elems(s) : Key(x) # Key(e)} \cup {e}
  BY WithEntryKeeps
<1>2. \A x \in Elems(s) : Key(x) = Key(e) => x = e
  BY OnePerKey
<1>3. Elems(WithEntry(s, e)) = Elems(s) \cup {e}
  BY <1>1, <1>2
<1>4. e \in Elems(s) \/ e.status # "delivered"
  OBVIOUS
<1>5. KeysIn(WithEntry(s, e)) = KeysIn(s) \cup {Key(e)}
  BY <1>3 DEF KeysIn
<1>6. DoneIn(WithEntry(s, e)) = DoneIn(s)
  BY <1>3, <1>4 DEF DoneIn
<1> QED
  BY <1>5, <1>6

(* A live object is the outbox itself, and what is written for a message is *)
(* its entry there, or a new one that is next in line.                      *)
LEMMA UpsertInLine ==
  ASSUME Standing, InLine, setup.live, NEW w, Handy(w, written, target),
         w.todo # << >>, SkipsNone(w.todo, target, KeysIn(outbox)),
         outbox' = WithEntry(outbox, EntryToWrite(w))
  PROVE  LET k == << Head(w.todo), target >> IN
           /\ k \in Keys
           /\ KeysIn(outbox') = KeysIn(outbox) \cup {k}
           /\ DoneIn(outbox') = DoneIn(outbox)
           /\ NoGap(KeysIn(outbox')) /\ InOrder(outbox')
           /\ SkipsNone(Tail(w.todo), target, KeysIn(outbox'))
<1> DEFINE e == EntryToWrite(w)
           k == << Head(w.todo), target >>
           s == outbox
           t == outbox'
           to == target
<1>1. Known(w) = s
  BY DEF Known
<1>2. /\ e \in Entries /\ Key(e) = k
      /\ e \in Elems(s) \/ e.status = "pending"
      /\ (\E x \in Elems(s) : Key(x) = Key(e)) => e \in Elems(s)
  BY <1>1, EntryToWriteKeeps DEF Standing
<1>3. s \in Seq(Entries) /\ Unique(s) /\ InOrder(s) /\ NoGap(KeysIn(s))
  BY DEF Standing, Types, InLine
<1>4. t = WithEntry(s, e) /\ w.todo \in Seq(Messages)
      /\ SkipsNone(w.todo, to, KeysIn(s))
  BY WorkerFields DEF Handy
<1>5. k \in Keys
  BY <1>2, EntryFields
<1>6. k[1] = Head(w.todo) /\ k[2] = to /\ k = << Head(w.todo), to >>
  OBVIOUS
<1> HIDE DEF e, s, t, k, to
<1>7. KeysIn(t) = KeysIn(s) \cup {k} /\ DoneIn(t) = DoneIn(s)
  BY <1>2, <1>3, <1>4, WithEntryInLine
<1>8. InOrder(t)
  BY <1>2, <1>3, <1>4, WithEntryInOrder
<1>9. /\ \A i \in Messages : i < Head(w.todo) => << i, to >> \in KeysIn(s)
      /\ SkipsNone(Tail(w.todo), to, KeysIn(t))
  BY <1>4, <1>6, <1>7, SkipsNoneTail
<1>10. NoGap(KeysIn(t))
  BY <1>3, <1>6, <1>7, <1>9, NoGapAdd
<1> QED
  BY <1>5, <1>7, <1>8, <1>9, <1>10 DEF s, t, k, to

LEMMA PendingSkipsNone ==
  ASSUME NEW s \in Seq(Messages), NEW n \in Nat, Len(s) <= n, n <= MaxMessages,
         MaxMessages \in Nat, NEW K, tracker \subseteq K
  PROVE  SkipsNone(Pending(s), target, K)
<1> DEFINE t == Pending(s)
           x == Indexes(s)
           chosen == Undelivered(s)
<1>1. x \in Seq(Messages) /\ Len(x) = Len(s) /\ \A i \in DOMAIN x : x[i] = i
  BY IndexesTypes
<1>2. t = Those(x, chosen)
  BY DEF Pending
<1>3. DOMAIN s = 1 .. Len(s) /\ Len(s) \in Nat
      /\ \A i \in 1 .. Len(s) : i \in chosen \/ << i, target >> \in K
  BY DEF Undelivered
<1> HIDE DEF t, x, chosen
<1>4. t \in Seq(Messages) /\ \E p : Locates(p, t, x, chosen, Len(x))
  BY <1>1, <1>2, ThosePlaces
<1>5. PICK p : Locates(p, t, x, chosen, Len(x))
  BY <1>4
<1>6. DOMAIN t = 1 .. Len(t) /\ DOMAIN x = 1 .. Len(s) /\ Len(t) \in Nat
  BY <1>1, <1>3, <1>4
<1>7. /\ \A j \in DOMAIN t : p[j] \in 1 .. Len(s) /\ t[j] = p[j]
      /\ \A i, j \in DOMAIN t : i < j => p[i] < p[j]
      /\ \A i \in 1 .. Len(s) : i \in chosen => \E j \in DOMAIN t : p[j] = i
  BY <1>1, <1>5, <1>6 DEF Locates
<1>8. ASSUME NEW j \in DOMAIN t, NEW i \in Messages, i < t[j], << i, target >> \notin K
      PROVE  \E l \in DOMAIN t : l < j /\ t[l] = i
  <2>1. t[j] \in 1 .. Len(s) /\ i \in Nat /\ i \in 1 .. Len(s)
    BY <1>3, <1>7, <1>8 DEF Messages
  <2>2. PICK l \in DOMAIN t : p[l] = i
    BY <1>3, <1>7, <1>8, <2>1
  <2>3. t[l] = i /\ p[j] = t[j] /\ l \in Nat /\ j \in Nat
    BY <1>6, <1>7, <2>2
  <2>4. ~ j < l /\ l # j
    BY <1>7, <1>8, <2>1, <2>2, <2>3
  <2> QED
    BY <2>3, <2>4
<1> QED
  BY <1>8 DEF SkipsNone, t

(* What prepareAssistantDeliveries returns is what its target waits for.    *)
LEMMA AttemptsInTurn ==
  ASSUME Standing, InLine, setup.live
  PROVE  InTurn(Attempts(server), DoneIn(outbox))
<1> DEFINE s == outbox
           to == target
           U == Undelivered(server.session)
           chosen == AboutPending(server) \cap RetryablePlaces(s)
           t == Those(s, chosen)
<1>1. Attempts(server) = t
  BY DEF Attempts, Known
<1>2. chosen = {i \in DOMAIN s : s[i].target = to /\ s[i].index \in U /\ Retryable(s[i])}
  BY DEF AboutPending, RetryablePlaces, Known
<1>3. /\ \A i \in U : i \in DOMAIN server.session
      /\ \A i \in DOMAIN server.session : i \in U \/ << i, to >> \in DoneIn(s)
  BY DEF Undelivered, InLine
<1>4. \A i \in DOMAIN server.session, j \in Messages : j < i => j \in DOMAIN server.session
  <2>1. server.session \in Seq(Messages)
    BY WorkerFields DEF Standing, Types, Handy
  <2> QED
    BY <2>1 DEF Messages
<1>5. s \in Seq(Entries) /\ InOrder(s) /\ NoGap(KeysIn(s))
  BY DEF Standing, Types, InLine
<1> HIDE DEF s, to, U, chosen, t
<1>6. /\ t \in Seq(Entries) /\ InOrder(t)
      /\ Elems(t) = {s[i] : i \in (DOMAIN s) \cap chosen}
  BY <1>5, ThoseKeep, ThoseInOrder DEF t
<1>7. ASSUME NEW e \in Elems(t), NEW i \in Messages, i < e.index
      PROVE  << i, e.target >> \in DoneIn(s) \/ << i, e.target >> \in KeysIn(t)
  <2>1. e \in Elems(s) /\ e.target = to /\ e.index \in U
    BY <1>2, <1>6 DEF Elems
  <2>2. i \in U \/ << i, to >> \in DoneIn(s)
    BY <1>3, <1>4, <1>7, <2>1
  <2>3. << e.index, to >> \in KeysIn(s)
    BY <2>1 DEF KeysIn, Key
  <2>4. << i, to >> \in KeysIn(s)
    BY <1>5, <1>7, <2>3 DEF NoGap
  <2>5. PICK q \in DOMAIN s : Key(s[q]) = << i, to >>
    BY <2>4 DEF KeysIn, Elems
  <2>6. s[q] \in Entries /\ s[q].index = i /\ s[q].target = to /\ s[q] \in Elems(s)
    BY <1>5, <2>5 DEF Key, Elems
  <2>7. CASE s[q].status = "delivered"
    BY <2>1, <2>5, <2>6, <2>7 DEF DoneIn
  <2>8. CASE s[q].status # "delivered" /\ i \in U
    <3>1. Retryable(s[q])
      BY <2>6, <2>8, EntryFields DEF Retryable, Statuses
    <3>2. s[q] \in Elems(t)
      BY <1>2, <1>6, <2>6, <2>8, <3>1
    <3> QED
      BY <2>1, <2>5, <3>2 DEF KeysIn
  <2> QED
    BY <2>1, <2>2, <2>7, <2>8
<1>8. InTurn(t, DoneIn(s))
  BY <1>6, <1>7, OrderedInTurn
<1> QED
  BY <1>1, <1>8 DEF s

(* So is what the start lists.                                              *)
LEMMA ListedInTurn ==
  ASSUME Standing, InLine,
         NEW attempts \in Sorted(Those(outbox, RetryablePlaces(outbox)))
  PROVE  InTurn(attempts, DoneIn(outbox))
<1>1. /\ attempts \in Seq(Entries)
      /\ Elems(attempts) = {e \in Elems(outbox) : Retryable(e)}
  BY ListedKeep DEF Standing
<1>2. outbox \in Seq(Entries) /\ NoGap(KeysIn(outbox)) /\ Elems(outbox) \subseteq Entries
  BY ElemsTypes DEF Standing, Types, InLine
<1>3. InOrder(attempts)
  <2>1. Those(outbox, RetryablePlaces(outbox)) \in Seq(Entries)
    BY <1>2, ThoseKeep
  <2> QED
    BY <2>1, SortedInOrder
<1>4. ASSUME NEW e \in Elems(attempts), NEW i \in Messages, i < e.index
      PROVE  \/ << i, e.target >> \in DoneIn(outbox)
             \/ << i, e.target >> \in KeysIn(attempts)
  <2>1. Key(e) \in KeysIn(outbox) /\ Key(e) = << e.index, e.target >>
    BY <1>1 DEF KeysIn, Key
  <2>2. << i, e.target >> \in KeysIn(outbox)
    BY <1>2, <1>4, <2>1 DEF NoGap
  <2>3. PICK f \in Elems(outbox) : Key(f) = << i, e.target >>
    BY <2>2 DEF KeysIn
  <2>4. f.status \in Statuses
    BY <1>2, EntryFields
  <2>5. CASE f.status = "delivered"
    BY <2>3, <2>5 DEF DoneIn
  <2>6. CASE f.status # "delivered"
    <3>1. f \in Elems(attempts)
      BY <1>1, <2>4, <2>6 DEF Retryable, Statuses
    <3> QED
      BY <2>3, <3>1 DEF KeysIn
  <2> QED
    BY <2>5, <2>6
<1> QED
  BY <1>1, <1>3, <1>4, OrderedInTurn

(* What is recorded is delivered, what is open waits in line.               *)
LEMMA OpenInLine ==
  ASSUME NEW k
  PROVE  /\ IsDelivered(k) <=> k \in DoneIn(outbox)
         /\ IsOpen(k) => k \in KeysIn(outbox)
BY DEF IsDelivered, IsOpen, DoneIn, KeysIn

LEMMA CurrentInLine ==
  ASSUME Standing, Safe, server.attempts # << >>
  PROVE  /\ Key(Current) \in KeysIn(outbox) /\ Key(Current) \notin DoneIn(outbox)
         /\ Key(Current) \in Keys /\ Current = Head(server.attempts)
         /\ server.attempts \in Seq(Entries)
         /\ outbox \in Seq(Entries) /\ Unique(outbox)
<1>1. Key(Current) \in Keys /\ IsOpen(Key(Current)) /\ ~ IsDelivered(Key(Current))
  BY CurrentOpen
<1>2. Key(Current) \in KeysIn(outbox) /\ Key(Current) \notin DoneIn(outbox)
  BY <1>1, OpenInLine
<1> QED
  BY <1>1, <1>2, WorkerFields DEF Current, Standing, Types, Handy

(* No entry comes or goes, and none is recorded as delivered.               *)
LEMMA InLineFrame ==
  ASSUME InLine, KeysIn(outbox') = KeysIn(outbox), DoneIn(outbox') = DoneIn(outbox),
         InOrder(outbox'), tracker' \subseteq tracker,
         SkipsNone(server'.todo, target', KeysIn(outbox)),
         SkipsNone(back'.todo, target', KeysIn(outbox)),
         InTurn(server'.attempts, DoneIn(outbox)), JustReceived'
  PROVE  InLine'
BY DEF InLine

(* A thread of control that is not about to write has nothing to write.     *)
LEMMA NothingToDo ==
  ASSUME Standing
  PROVE  /\ server.pc \notin Preparing => server.todo = << >>
         /\ back.pc # "commit" => back.todo = << >>
BY DEF Standing, Types, Phases, Handy, Preparing

LEMMA InitInLine == Init => InLine
<1> SUFFICES ASSUME Init PROVE InLine
  OBVIOUS
<1>1. outbox = << >> /\ tracker = {} /\ server = Free /\ back = Free
  BY DEF Init
<1>2. KeysIn(outbox) = {} /\ DoneIn(outbox) = {} /\ DOMAIN outbox = {}
  BY <1>1 DEF KeysIn, DoneIn, Elems
<1>3. NoGap(KeysIn(outbox)) /\ NoGap(DoneIn(outbox)) /\ InOrder(outbox)
  BY <1>2 DEF NoGap, InOrder
<1>4. JustReceived
  BY <1>1, FreeFields DEF JustReceived
<1> QED
  BY <1>1, <1>3, <1>4, FreeFields, SkipsNoneEmpty, InTurnEmpty DEF InLine

LEMMA DispatchInLine == ASSUME Standing, InLine, Dispatch PROVE InLine'
<1>1. server'.pc = "turn" /\ server'.attempts = << >> /\ server'.todo = << >>
  BY FreeHandy, Fields DEF Standing, Dispatch
<1>2. back'.todo = << >>
  BY NothingToDo DEF Dispatch, HoldsRun
<1>3. JustReceived'
  BY <1>1 DEF JustReceived
<1>4. InOrder(outbox') /\ outbox' = outbox /\ tracker' = tracker
  BY DEF InLine, Dispatch
<1> QED
  BY <1>1, <1>2, <1>3, <1>4, SkipsNoneEmpty, InTurnEmpty, InLineFrame

LEMMA TurnEndsInLine ==
  ASSUME Standing, NEW w, TurnEnds(w), NEW K
  PROVE  SkipsNone(w.todo, target, K)
<1>1. PICK session :
        \/ w.todo = << >>
        \/ w.todo = Indexes(session) /\ w.session = session
  BY DEF TurnEnds, Free
<1>2. w.session \in Seq(Messages)
  BY TurnEndsKeeps, WorkerFields DEF Standing, Handy
<1> QED
  BY <1>1, <1>2, SkipsNoneEmpty, IndexesSkipNone

LEMMA TurnInLine == ASSUME Standing, InLine, Turn PROVE InLine'
<1>1. /\ server'.attempts = << >> /\ server'.pc # "record"
      /\ SkipsNone(server'.todo, target, KeysIn(outbox))
  <2>1. CASE TurnEnds(server')
    <3>1. server'.attempts = << >> /\ server'.pc = "commit"
      BY <2>1, TurnEndsKeeps DEF Standing
    <3>2. SkipsNone(server'.todo, target, KeysIn(outbox))
      BY <2>1, TurnEndsInLine
    <3> QED
      BY <3>1, <3>2
  <2>2. CASE server' = Free
    BY <2>2, FreeFields, SkipsNoneEmpty
  <2> QED
    BY <2>1, <2>2 DEF Turn
<1>2. JustReceived'
  BY <1>1 DEF JustReceived
<1>3. /\ InOrder(outbox') /\ outbox' = outbox /\ tracker' = tracker /\ target' = target
      /\ SkipsNone(back'.todo, target, KeysIn(outbox))
  BY DEF InLine, Turn
<1> QED
  BY <1>1, <1>2, <1>3, InTurnEmpty, InLineFrame

LEMMA BackgroundTurnInLine == ASSUME Standing, InLine, BackgroundTurn PROVE InLine'
<1>1. SkipsNone(back'.todo, target, KeysIn(outbox))
  BY TurnEndsInLine DEF BackgroundTurn
<1>2. /\ InOrder(outbox') /\ outbox' = outbox /\ tracker' = tracker /\ target' = target
      /\ SkipsNone(server'.todo, target, KeysIn(outbox))
      /\ InTurn(server'.attempts, DoneIn(outbox)) /\ JustReceived'
  BY DEF InLine, BackgroundTurn, JustReceived, Current
<1> QED
  BY <1>1, <1>2, InLineFrame

LEMMA ServerUpsertInLine ==
  ASSUME Standing, InLine, setup.live, ServerUpsert PROVE InLine'
<1> DEFINE s == outbox
           t == outbox'
<1>1. Handy(server, written, target) /\ server.todo # << >> /\ server.pc \in Preparing
  BY DEF Standing, Types, ServerUpsert, Handy
<1>2. /\ KeysIn(s) \subseteq KeysIn(t) /\ DoneIn(t) = DoneIn(s)
      /\ NoGap(KeysIn(t)) /\ InOrder(t)
      /\ SkipsNone(Tail(server.todo), target, KeysIn(t))
  BY <1>1, UpsertInLine DEF ServerUpsert, InLine
<1>3. /\ server'.pc = server.pc /\ server'.attempts = server.attempts
      /\ server'.todo = Tail(server.todo)
  BY <1>1, UpsertedKeeps DEF Standing, ServerUpsert
<1>4. back'.todo = back.todo /\ target' = target /\ tracker' = tracker
  BY DEF ServerUpsert
<1>5. JustReceived'
  BY <1>1, <1>3 DEF JustReceived, Preparing
<1>6. SkipsNone(back.todo, target, KeysIn(t))
  BY <1>2, SkipsNoneLater DEF InLine
<1> QED
  BY <1>2, <1>3, <1>4, <1>5, <1>6 DEF InLine

LEMMA BackgroundUpsertInLine ==
  ASSUME Standing, InLine, setup.live, BackgroundUpsert PROVE InLine'
<1> DEFINE s == outbox
           t == outbox'
<1>1. Handy(back, written, target) /\ back.todo # << >>
  BY DEF Standing, Types, BackgroundUpsert
<1>2. /\ KeysIn(s) \subseteq KeysIn(t) /\ DoneIn(t) = DoneIn(s)
      /\ NoGap(KeysIn(t)) /\ InOrder(t)
      /\ SkipsNone(Tail(back.todo), target, KeysIn(t))
  BY <1>1, UpsertInLine DEF BackgroundUpsert, InLine
<1>3. back'.todo = Tail(back.todo)
  BY <1>1, UpsertedKeeps DEF Standing, BackgroundUpsert
<1>4. server' = server /\ target' = target /\ tracker' = tracker /\ receipts' = receipts
  BY DEF BackgroundUpsert
<1>5. JustReceived'
  BY <1>4 DEF InLine, JustReceived, Current
<1>6. SkipsNone(server.todo, target, KeysIn(t))
  BY <1>2, SkipsNoneLater DEF InLine
<1> QED
  BY <1>2, <1>3, <1>4, <1>5, <1>6 DEF InLine

LEMMA CommitInLine == ASSUME Standing, InLine, Commit PROVE InLine'
<1>1. server'.pc = "read" /\ server'.attempts = server.attempts
      /\ server'.todo = server.todo
  BY DEF Commit, Standing, Types, Handy, Workers
<1>2. JustReceived'
  BY <1>1 DEF JustReceived
<1>3. outbox' = outbox /\ tracker' = tracker /\ target' = target /\ back' = back
  BY DEF Commit
<1> QED
  BY <1>1, <1>2, <1>3, InLineFrame DEF InLine

LEMMA BackgroundCommitInLine == ASSUME Standing, InLine, BackgroundCommit PROVE InLine'
<1>1. back'.todo = << >>
  BY FreeFields DEF BackgroundCommit
<1>2. outbox' = outbox /\ tracker' = tracker /\ target' = target /\ server' = server
      /\ receipts' = receipts
  BY DEF BackgroundCommit
<1>3. JustReceived'
  BY <1>2 DEF InLine, JustReceived, Current
<1> QED
  BY <1>1, <1>2, <1>3, SkipsNoneEmpty, InLineFrame DEF InLine

LEMMA PrepareInLine == ASSUME Standing, InLine, Prepare PROVE InLine'
<1>1. /\ server'.pc = "prepare" /\ server'.attempts = server.attempts
      /\ server'.todo = Pending(server.session)
  BY DEF Prepare, Standing, Types, Handy, Workers
<1>2. JustReceived'
  BY <1>1 DEF JustReceived
<1>3. outbox' = outbox /\ tracker' = tracker /\ target' = target /\ back' = back
  BY DEF Prepare
<1>4. tracker \subseteq KeysIn(outbox)
  BY KeysAndDone DEF InLine, Standing, Types
<1>5. server.session \in Seq(Messages) /\ Len(server.session) <= written
  BY WorkerFields DEF Standing, Types, Handy
<1>6. SkipsNone(Pending(server.session), target, KeysIn(outbox))
  BY <1>4, <1>5, Fields, PendingSkipsNone DEF Standing
<1> QED
  BY <1>1, <1>2, <1>3, <1>6, InLineFrame DEF InLine

LEMMA PreparedInLine == ASSUME Standing, InLine, setup.live, Prepared PROVE InLine'
<1>1. server'.pc = "deliver" /\ server'.attempts = Attempts(server) /\ server'.todo = << >>
  BY PreparedStands DEF Prepared, Free
<1>2. InTurn(Attempts(server), DoneIn(outbox))
  BY AttemptsInTurn
<1>3. outbox' = outbox /\ tracker' = tracker /\ target' = target /\ back' = back
  BY DEF Prepared
<1>4. JustReceived'
  BY <1>1 DEF JustReceived
<1> QED
  BY <1>1, <1>2, <1>3, <1>4, SkipsNoneEmpty, InLineFrame DEF InLine

LEMMA ListPendingInLine == ASSUME Standing, InLine, ListPending PROVE InLine'
<1>1. PICK attempts \in Sorted(Those(outbox, RetryablePlaces(outbox))) :
        server' = [Free EXCEPT !.pc = "deliver", !.due = server.due,
                               !.attempts = attempts]
  BY DEF ListPending
<1>2. server'.pc = "deliver" /\ server'.attempts = attempts /\ server'.todo = << >>
  BY <1>1 DEF Free
<1>3. InTurn(attempts, DoneIn(outbox))
  BY ListedInTurn
<1>4. outbox' = outbox /\ tracker' = tracker /\ target' = target /\ back' = back
  BY DEF ListPending
<1>5. JustReceived'
  BY <1>2 DEF JustReceived
<1> QED
  BY <1>2, <1>3, <1>4, <1>5, SkipsNoneEmpty, InLineFrame DEF InLine

LEMMA DeliveringInLine == ASSUME Standing, Safe, InLine, Delivering PROVE InLine'
<1>1. server'.pc = "send" /\ server'.attempts = server.attempts
      /\ server'.todo = server.todo /\ server.attempts # << >>
  BY DEF Delivering, Standing, Types, Handy, Workers
<1>2. /\ KeysIn(outbox') = KeysIn(outbox) /\ DoneIn(outbox') = DoneIn(outbox)
      /\ InOrder(outbox')
  BY <1>1, CurrentInLine, MarkInLine DEF Delivering, Statuses, InLine
<1>3. JustReceived'
  BY <1>1 DEF JustReceived
<1>4. tracker' = tracker /\ target' = target /\ back' = back
  BY DEF Delivering
<1> QED
  BY <1>1, <1>2, <1>3, <1>4, InLineFrame DEF InLine

LEMMA DeliverInLine == ASSUME Standing, InLine, Deliver PROVE InLine'
<1>1. /\ server'.attempts = server.attempts /\ server.attempts # << >>
  BY DeliverStands
<1>2. server'.todo = server.todo
  BY DEF Deliver, Standing, Types, Handy, Workers
<1>3. outbox' = outbox /\ tracker' = tracker /\ target' = target /\ back' = back
  BY DEF Deliver
<1>4. server'.pc = "record" => Received
  BY DEF Deliver, Standing, Types, Handy, Workers
<1>5. ASSUME Received
      PROVE  receipts' # << >> /\ Key(receipts'[Len(receipts')]) = Key(Current)
  <2> DEFINE r == [index |-> Current.index, target |-> Current.target,
                   message |-> Current.message]
             s == receipts
             t == Append(s, r)
  <2>1. r \in Receipts /\ s \in Seq(Receipts) /\ Key(r) = Key(Current)
    BY <1>1, CurrentFields, EntryFields DEF Standing, Types, Receipts, Key
  <2>2. receipts' = t
    BY <1>5 DEF Received
  <2> HIDE DEF r, s
  <2>3. t # << >> /\ t[Len(t)] = r
    BY <2>1
  <2> QED
    BY <2>1, <2>2, <2>3
<1>6. JustReceived'
  BY <1>1, <1>4, <1>5 DEF JustReceived, Current
<1> QED
  BY <1>1, <1>2, <1>3, <1>6, InLineFrame DEF InLine

LEMMA DeliveredInLine == ASSUME Standing, Safe, InLine, Delivered PROVE InLine'
<1> DEFINE k == Key(Current)
           s == outbox
           t == outbox'
<1>1. /\ server'.pc = "deliver" /\ server'.attempts = Tail(server.attempts)
      /\ server.attempts # << >>
  BY DeliveredStands
<1>2. server'.todo = server.todo
  BY DEF Delivered, Standing, Types, Handy, Workers
<1>3. tracker' = tracker \cup {k} /\ target' = target /\ back' = back
  BY DEF Delivered
<1>4. /\ k \in KeysIn(s) /\ k \in Keys /\ Current = Head(server.attempts)
      /\ server.attempts \in Seq(Entries) /\ s \in Seq(Entries) /\ Unique(s)
  BY <1>1, CurrentInLine
<1>5. KeysIn(t) = KeysIn(s) /\ DoneIn(t) = DoneIn(s) \cup {k} /\ InOrder(t)
  BY <1>4, MarkInLine DEF Delivered, Statuses, InLine
<1>6. k = << Current.index, Current.target >>
  BY DEF Key
<1>7. \A i \in Messages : i < Current.index => << i, Current.target >> \in DoneIn(s)
  BY <1>1, <1>4, InTurnHead DEF InLine
<1>8. NoGap(DoneIn(t))
  <2>1. \A i \in Messages : i < k[1] => << i, k[2] >> \in DoneIn(s)
    BY <1>6, <1>7
  <2>2. NoGap(DoneIn(s))
    BY DEF InLine
  <2> HIDE DEF k, s, t
  <2> QED
    BY <1>5, <2>1, <2>2, NoGapAdd
<1>9. InTurn(Tail(server.attempts), DoneIn(t))
  <2>1. InTurn(server.attempts, DoneIn(s))
    BY DEF InLine
  <2>2. Key(Head(server.attempts)) \in DoneIn(t)
    BY <1>4, <1>5
  <2> HIDE DEF k, s, t
  <2> QED
    BY <1>1, <1>4, <1>5, <2>1, <2>2, InTurnTail
<1>10. JustReceived'
  BY <1>1 DEF JustReceived
<1> HIDE DEF k
<1> QED
  BY <1>1, <1>2, <1>3, <1>5, <1>8, <1>9, <1>10 DEF InLine

LEMMA FailedInLine == ASSUME Standing, Safe, InLine, Failed PROVE InLine'
<1>1. server'.pc = "ready" /\ server'.attempts = << >> /\ server'.todo = << >>
  BY FreeFields DEF Failed
<1>2. server.attempts # << >>
  BY DEF Standing, Phases, Failed, Sending
<1>3. /\ KeysIn(outbox') = KeysIn(outbox) /\ DoneIn(outbox') = DoneIn(outbox)
      /\ InOrder(outbox')
  BY <1>2, CurrentInLine, MarkInLine DEF Failed, Statuses, InLine
<1>4. JustReceived'
  BY <1>1 DEF JustReceived
<1>5. tracker' = tracker /\ target' = target /\ back' = back
  BY DEF Failed
<1> QED
  BY <1>1, <1>3, <1>4, <1>5, SkipsNoneEmpty, InTurnEmpty, InLineFrame DEF InLine

LEMMA AllDeliveredInLine == ASSUME Standing, InLine, AllDelivered PROVE InLine'
<1>1. server'.pc = "ready" /\ server'.attempts = << >> /\ server'.todo = << >>
  BY DEF AllDelivered, Free
<1>2. JustReceived'
  BY <1>1 DEF JustReceived
<1>3. outbox' = outbox /\ tracker' = tracker /\ target' = target /\ back' = back
  BY DEF AllDelivered
<1> QED
  BY <1>1, <1>2, <1>3, SkipsNoneEmpty, InTurnEmpty, InLineFrame DEF InLine

LEMMA CrashInLine == ASSUME Standing, InLine, Crash PROVE InLine'
<1>1. server' = Free /\ back' = Free /\ tracker' = {} /\ target' = target
      /\ outbox' \in Sorted(outbox)
  BY DEF Crash
<1>2. /\ KeysIn(outbox') = KeysIn(outbox) /\ DoneIn(outbox') = DoneIn(outbox)
      /\ InOrder(outbox')
  <2>1. outbox \in Seq(Entries)
    BY DEF Standing, Types
  <2>2. Elems(outbox') = Elems(outbox)
    BY <1>1, <2>1, SortedKeeps
  <2> QED
    BY <1>1, <2>1, <2>2, SameLine, SortedInOrder
<1>3. JustReceived'
  BY <1>1, FreeFields DEF JustReceived
<1> QED
  BY <1>1, <1>2, <1>3, FreeFields, SkipsNoneEmpty, InTurnEmpty, InLineFrame

LEMMA RestartInLine == ASSUME Standing, InLine, Restart PROVE InLine'
<1>1. server'.pc = "start" /\ server'.attempts = << >> /\ server'.todo = << >>
  BY FreeHandy, Fields DEF Standing, Restart
<1>2. JustReceived'
  BY <1>1 DEF JustReceived
<1>3. outbox' = outbox /\ tracker' = tracker /\ target' = target /\ back' = back
  BY DEF Restart
<1> QED
  BY <1>1, <1>2, <1>3, SkipsNoneEmpty, InTurnEmpty, InLineFrame DEF InLine

LEMMA MaterializeInLine == ASSUME Standing, InLine, Materialize PROVE InLine'
<1>1. /\ server'.pc = "list" /\ server'.attempts = << >>
      /\ server'.todo = << >> \/ server'.todo = Indexes(Visible)
  BY DEF Materialize, Free
<1>2. JustReceived'
  BY <1>1 DEF JustReceived
<1>3. outbox' = outbox /\ tracker' = tracker /\ target' = target /\ back' = back
  BY DEF Materialize
<1>4. SkipsNone(server'.todo, target, KeysIn(outbox))
  BY <1>1, VisibleTypes, SkipsNoneEmpty, IndexesSkipNone
<1> QED
  BY <1>1, <1>2, <1>3, <1>4, InTurnEmpty, InLineFrame DEF InLine

LEMMA NextInLine ==
  ASSUME Standing, Safe, setup.live, InLine, [Next]_vars
  PROVE  InLine'
<1>1. CASE Dispatch \/ Turn \/ BackgroundTurn
  BY <1>1, DispatchInLine, TurnInLine, BackgroundTurnInLine
<1>2. CASE ServerUpsert \/ BackgroundUpsert
  BY <1>2, ServerUpsertInLine, BackgroundUpsertInLine
<1>3. CASE Commit \/ BackgroundCommit
  BY <1>3, CommitInLine, BackgroundCommitInLine
<1>4. CASE Prepare \/ Prepared
  BY <1>4, PrepareInLine, PreparedInLine
<1>5. CASE Delivering \/ Deliver \/ Delivered
  BY <1>5, DeliveringInLine, DeliverInLine, DeliveredInLine
<1>6. CASE Failed \/ AllDelivered
  BY <1>6, FailedInLine, AllDeliveredInLine
<1>7. CASE Materialize \/ ListPending
  BY <1>7, MaterializeInLine, ListPendingInLine
<1>8. CASE Crash \/ Restart
  BY <1>8, CrashInLine, RestartInLine
<1>9. CASE UNCHANGED vars
  BY <1>9 DEF vars, InLine, JustReceived, Current
<1> QED
  BY <1>1, <1>2, <1>3, <1>4, <1>5, <1>6, <1>7, <1>8, <1>9
     DEF Next, ServerStep, BackgroundStep

-----------------------------------------------------------------------------
(* Each target has a queue of replies.                                      *)

PlacesIn(K, t) == {i \in Messages : << i, t >> \in K}

LEMMA PlacesFinite ==
  ASSUME NEW K, NEW t
  PROVE  IsFiniteSet(PlacesIn(K, t)) /\ Cardinality(PlacesIn(K, t)) \in Nat
<1>1. PlacesIn(K, t) \subseteq 1 .. MaxMessages /\ MaxMessages \in Nat
  BY OutboxAssumption DEF PlacesIn, Messages
<1>2. IsFiniteSet(1 .. MaxMessages)
  BY <1>1, FS_Interval
<1>3. IsFiniteSet(PlacesIn(K, t))
  BY <1>1, <1>2, FS_Subset
<1> QED
  BY <1>3, FS_CardinalityType

(* What has been offered and served, in a state and in the next one.        *)
LEMMA OfferedServed ==
  ASSUME Types, setup.live, NEW t
  PROVE  /\ Offered(t) = PlacesIn(KeysIn(outbox), t)
         /\ Served(t) = PlacesIn(DoneIn(outbox), t)
<1>1. outbox \in Seq(Entries) /\ Unique(outbox)
  BY DEF Types
<1>2. \A k : /\ Status(k) # "none" <=> k \in KeysIn(outbox)
             /\ Status(k) = "delivered" <=> k \in DoneIn(outbox)
  BY <1>1, StatusInLine DEF Status
<1> QED
  BY <1>2 DEF Offered, Served, PlacesIn

LEMMA OfferedServedNext ==
  ASSUME Types', setup'.live, NEW t
  PROVE  /\ Offered(t)' = PlacesIn(KeysIn(outbox'), t)
         /\ Served(t)' = PlacesIn(DoneIn(outbox'), t)
<1>1. outbox' \in Seq(Entries) /\ Unique(outbox')
  BY DEF Types
<1>2. \A k : /\ Status(k)' # "none" <=> k \in KeysIn(outbox')
             /\ Status(k)' = "delivered" <=> k \in DoneIn(outbox')
  BY <1>1, StatusInLine DEF Status
<1> QED
  BY <1>2 DEF Offered, Served, PlacesIn

(* Nothing is offered by a store that hands out copies.                     *)
LEMMA ThoseNone ==
  ASSUME NEW S, NEW s \in Seq(S), NEW chosen, chosen \cap DOMAIN s = {}
  PROVE  Those(s, chosen) = << >>
<1> DEFINE t == Those(s, chosen)
<1>1. t \in Seq(S) /\ \E p : Locates(p, t, s, chosen, Len(s))
  BY ThosePlaces
<1> HIDE DEF t
<1>2. PICK p : Locates(p, t, s, chosen, Len(s))
  BY <1>1
<1>3. \A i \in 1 .. Len(t) : p[i] \in chosen /\ p[i] \in 1 .. Len(s)
  BY <1>2 DEF Locates
<1>4. DOMAIN s = 1 .. Len(s) /\ Len(t) \in Nat
  BY <1>1
<1>5. ~ 1 \in 1 .. Len(t)
  BY <1>3, <1>4
<1>6. t = << >>
  BY <1>1, <1>4, <1>5
<1> QED
  BY <1>6 DEF t

LEMMA NoQueueOfCopies ==
  ASSUME Types, ~ setup.live, NEW t
  PROVE  Offered(t) = {} /\ Served(t) = {} /\ ReceivedBy(t) = << >>
<1>1. receipts \in Seq(Receipts)
  BY DEF Types
<1>2. {i \in DOMAIN receipts : setup.live /\ receipts[i].target = t} = {}
  OBVIOUS
<1>3. Those(receipts, {}) = << >>
  BY <1>1, ThoseNone
<1> QED
  BY <1>2, <1>3 DEF Offered, Served, ReceivedBy

LEMMA NoQueueOfCopiesNext ==
  ASSUME Types', ~ setup'.live, NEW t
  PROVE  Offered(t)' = {} /\ Served(t)' = {} /\ ReceivedBy(t)' = << >>
<1>1. receipts' \in Seq(Receipts)
  BY DEF Types
<1>2. {i \in DOMAIN receipts' : setup'.live /\ receipts'[i].target = t} = {}
  OBVIOUS
<1>3. Those(receipts', {}) = << >>
  BY <1>1, ThoseNone
<1> QED
  BY <1>2, <1>3 DEF Offered, Served, ReceivedBy

(* The last of those is the last, if it is one of them.                     *)
LEMMA ThoseLast ==
  ASSUME NEW S, NEW s \in Seq(S), s # << >>, NEW chosen, Len(s) \in chosen
  PROVE  LET t == Those(s, chosen) IN
           t \in Seq(S) /\ t # << >> /\ t[Len(t)] = s[Len(s)]
<1> DEFINE t == Those(s, chosen)
           n == Len(s)
<1>1. t \in Seq(S) /\ \E p : Locates(p, t, s, chosen, n)
  BY ThosePlaces
<1>2. n \in Nat /\ n # 0 /\ n \in chosen
  OBVIOUS
<1> HIDE DEF t, n
<1>3. PICK p : Locates(p, t, s, chosen, n)
  BY <1>1
<1>4. PICK l \in 1 .. Len(t) : p[l] = n
  BY <1>2, <1>3 DEF Locates
<1>5. Len(t) \in Nat /\ Len(t) \in 1 .. Len(t) /\ l \in Nat /\ l <= Len(t)
  BY <1>1, <1>4
<1>6. p[Len(t)] \in 1 .. n
  BY <1>3, <1>5 DEF Locates
<1>7. ~ l < Len(t)
  BY <1>2, <1>3, <1>4, <1>5, <1>6 DEF Locates
<1>8. l = Len(t)
  BY <1>5, <1>7
<1>9. t[Len(t)] = s[n]
  BY <1>3, <1>4, <1>8 DEF Locates
<1>10. t # << >>
  BY <1>4
<1> QED
  BY <1>1, <1>9, <1>10 DEF t, n

IndexesIn(s) == [i \in DOMAIN s |-> s[i].index]

LEMMA IndexesAppend ==
  ASSUME NEW s \in Seq(Receipts), NEW r \in Receipts
  PROVE  IndexesIn(Append(s, r)) = Append(IndexesIn(s), r.index)
<1> DEFINE n == Len(s)
           t == Append(s, r)
           u == IndexesIn(s)
           v == Append(u, r.index)
           w == IndexesIn(t)
<1>1. /\ n \in Nat /\ DOMAIN s = 1 .. n /\ DOMAIN t = 1 .. n + 1
      /\ t[n + 1] = r /\ \A i \in 1 .. n : t[i] = s[i] /\ s[i] \in Receipts
  OBVIOUS
<1>2. \A x \in Receipts : x.index \in Messages
  BY DEF Receipts
<1>3. u \in [1 .. n -> Messages] /\ \A i \in 1 .. n : u[i] = s[i].index
  BY <1>1, <1>2 DEF IndexesIn
<1>4. u \in Seq(Messages) /\ Len(u) = n
  BY <1>1, <1>3
<1>5. w = [i \in 1 .. n + 1 |-> t[i].index]
  BY <1>1 DEF IndexesIn
<1>6. r.index \in Messages
  BY <1>2
<1> HIDE DEF u, t, n
<1>7. /\ v \in Seq(Messages) /\ DOMAIN v = 1 .. n + 1 /\ v[n + 1] = r.index
      /\ \A i \in 1 .. n : v[i] = u[i]
  BY <1>1, <1>4, <1>6
<1> HIDE DEF v, w
<1>8. v = [i \in 1 .. n + 1 |-> v[i]]
  BY <1>7
<1>9. \A i \in 1 .. n + 1 : v[i] = t[i].index
  BY <1>1, <1>3, <1>7
<1> QED
  BY <1>5, <1>8, <1>9 DEF v, w, u, t

-----------------------------------------------------------------------------
(* The steps of the queues.                                                 *)

LEMMA QueuesRest ==
  ASSUME \A t \in Targets : /\ Offered(t)' = Offered(t) /\ Served(t)' = Served(t)
                            /\ ReceivedBy(t)' = ReceivedBy(t)
  PROVE  UNCHANGED Queues!vars
BY DEF Queues!vars

LEMMA QueuesOffer ==
  ASSUME NEW t \in Targets, Cardinality(Offered(t)') = Cardinality(Offered(t)) + 1,
         \A u \in Targets : /\ u # t => Offered(u)' = Offered(u)
                            /\ Served(u)' = Served(u)
                            /\ ReceivedBy(u)' = ReceivedBy(u)
  PROVE  Queues!Offer(t)
BY DEF Queues!Offer

LEMMA QueuesSend ==
  ASSUME NEW t \in Targets, Cardinality(Served(t)) < Cardinality(Offered(t)),
         IndexesIn(ReceivedBy(t)') =
           Append(IndexesIn(ReceivedBy(t)), Cardinality(Served(t)) + 1),
         \A u \in Targets : /\ Offered(u)' = Offered(u)
                            /\ Served(u)' = Served(u)
                            /\ u # t => ReceivedBy(u)' = ReceivedBy(u)
  PROVE  Queues!Send(t)
BY DEF Queues!Send, IndexesIn

LEMMA QueuesServe ==
  ASSUME NEW t \in Targets, Cardinality(Served(t)') = Cardinality(Served(t)) + 1,
         IndexesIn(ReceivedBy(t)) # << >>,
         IndexesIn(ReceivedBy(t))[Len(IndexesIn(ReceivedBy(t)))]
           = Cardinality(Served(t)) + 1,
         \A u \in Targets : /\ Offered(u)' = Offered(u)
                            /\ u # t => Served(u)' = Served(u)
                            /\ ReceivedBy(u)' = ReceivedBy(u)
  PROVE  Queues!Serve(t)
BY DEF Queues!Serve, IndexesIn

(* Nothing is offered, sent or served.                                      *)
LEMMA RestStep ==
  ASSUME Types, Types', setup' = setup, setup.live, receipts' = receipts,
         KeysIn(outbox') = KeysIn(outbox), DoneIn(outbox') = DoneIn(outbox)
  PROVE  UNCHANGED Queues!vars
<1>1. ASSUME NEW t \in Targets
      PROVE  /\ Offered(t)' = Offered(t) /\ Served(t)' = Served(t)
             /\ ReceivedBy(t)' = ReceivedBy(t)
  <2>1. Offered(t)' = Offered(t) /\ Served(t)' = Served(t)
    BY OfferedServed, OfferedServedNext
  <2>2. ReceivedBy(t)' = ReceivedBy(t)
    BY DEF ReceivedBy
  <2> QED
    BY <2>1, <2>2
<1> QED
  BY <1>1, QueuesRest

LEMMA CopiesRest ==
  ASSUME Types, Types', setup' = setup, ~ setup.live
  PROVE  UNCHANGED Queues!vars
<1>1. ASSUME NEW t \in Targets
      PROVE  /\ Offered(t)' = Offered(t) /\ Served(t)' = Served(t)
             /\ ReceivedBy(t)' = ReceivedBy(t)
  BY NoQueueOfCopies, NoQueueOfCopiesNext
<1> QED
  BY <1>1, QueuesRest

(* An entry that is not in the outbox yet is offered.                       *)
LEMMA UpsertQueues ==
  ASSUME Standing, Types', InLine, setup' = setup, setup.live, receipts' = receipts,
         NEW w, Handy(w, written, target), w.todo # << >>,
         SkipsNone(w.todo, target, KeysIn(outbox)),
         outbox' = WithEntry(outbox, EntryToWrite(w))
  PROVE  [Queues!Next]_(Queues!vars)
<1> DEFINE s == outbox
           r == outbox'
<1>1. PICK i, t : i = Head(w.todo) /\ t = target
  OBVIOUS
<1> DEFINE k == << i, t >>
<1>2. k \in Keys /\ KeysIn(r) = KeysIn(s) \cup {k} /\ DoneIn(r) = DoneIn(s)
  BY <1>1, UpsertInLine
<1>3. Types
  BY DEF Standing
<1>4. i \in Messages /\ t \in Targets
  BY <1>2 DEF Keys, Messages
<1>5. CASE k \in KeysIn(s)
  BY <1>2, <1>3, <1>5, RestStep
<1>6. CASE k \notin KeysIn(s)
  <2>1. ASSUME NEW u \in Targets
        PROVE  /\ Offered(u) = PlacesIn(KeysIn(s), u)
               /\ Offered(u)' = PlacesIn(KeysIn(r), u)
               /\ Served(u)' = Served(u) /\ ReceivedBy(u)' = ReceivedBy(u)
    <3>1. /\ Offered(u) = PlacesIn(KeysIn(s), u) /\ Served(u) = PlacesIn(DoneIn(s), u)
          /\ Offered(u)' = PlacesIn(KeysIn(r), u) /\ Served(u)' = PlacesIn(DoneIn(r), u)
      BY <1>3, OfferedServed, OfferedServedNext
    <3>2. ReceivedBy(u)' = ReceivedBy(u)
      BY DEF ReceivedBy
    <3> QED
      BY <1>2, <3>1, <3>2
  <2> DEFINE P == PlacesIn(KeysIn(s), t)
             Q == PlacesIn(KeysIn(r), t)
  <2>2. Q = P \cup {i} /\ i \notin P
    BY <1>2, <1>4, <1>6 DEF PlacesIn
  <2>3. IsFiniteSet(P)
    BY PlacesFinite
  <2>4. Cardinality(Q) = Cardinality(P) + 1
    <3> HIDE DEF P, Q
    <3> QED
      BY <2>2, <2>3, FS_AddElement
  <2>5. ASSUME NEW u \in Targets, u # t PROVE PlacesIn(KeysIn(r), u) = PlacesIn(KeysIn(s), u)
    BY <1>2, <2>5 DEF PlacesIn
  <2>6. Cardinality(Offered(t)') = Cardinality(Offered(t)) + 1
    BY <1>4, <2>1, <2>4
  <2>7. Queues!Offer(t)
    BY <1>4, <2>1, <2>5, <2>6, QueuesOffer
  <2> QED
    BY <1>4, <2>7 DEF Queues!Next
<1> QED
  BY <1>5, <1>6

(* The reply the server is at is the first one its target was not served.   *)
LEMMA CurrentIsNext ==
  ASSUME Standing, Safe, InLine, setup.live, server.attempts # << >>,
         NEW t, t = Current.target, NEW n, n = Current.index
  PROVE  /\ t \in Targets /\ n \in Messages
         /\ n \in Offered(t) /\ n \notin Served(t)
         /\ Cardinality(Served(t)) + 1 = n
         /\ Cardinality(Served(t)) < Cardinality(Offered(t))
<1> DEFINE K == KeysIn(outbox)
           D == DoneIn(outbox)
           P == PlacesIn(K, t)
           Q == PlacesIn(D, t)
<1>1. Key(Current) = << n, t >>
  BY DEF Key
<1>2. /\ << n, t >> \in K /\ << n, t >> \notin D /\ << n, t >> \in Keys
      /\ Current = Head(server.attempts) /\ server.attempts \in Seq(Entries)
      /\ outbox \in Seq(Entries)
  BY <1>1, CurrentInLine
<1>3. n \in Messages /\ t \in Targets /\ MaxMessages \in Nat /\ Messages = 1 .. MaxMessages
  BY <1>2, OutboxAssumption DEF Keys, Messages
<1>4. \A i \in Messages : i < n => << i, t >> \in D
  BY <1>2, InTurnHead DEF InLine
<1>5. NoGap(D) /\ D \subseteq K
  BY <1>2, KeysAndDone DEF InLine
<1>6. Offered(t) = P /\ Served(t) = Q
  BY OfferedServed DEF Standing
<1> HIDE DEF K, D
<1>7. Q \subseteq P /\ n \in P /\ n \notin Q
  BY <1>2, <1>3, <1>5 DEF PlacesIn
<1>8. Q = 1 .. n - 1
  <2>1. ASSUME NEW i \in Q PROVE i \in 1 .. n - 1
    <3>1. << i, t >> \in D /\ i \in Messages /\ i # n
      BY <1>2, <2>1 DEF PlacesIn
    <3>2. ~ n < i
      BY <1>2, <1>3, <1>5, <3>1 DEF NoGap
    <3> QED
      BY <1>3, <3>1, <3>2
  <2>2. ASSUME NEW i \in 1 .. n - 1 PROVE i \in Q
    <3>1. i \in Messages /\ i < n
      BY <1>3
    <3> QED
      BY <1>4, <3>1 DEF PlacesIn
  <2> QED
    BY <2>1, <2>2
<1>9. Cardinality(Q) = n - 1
  <2>1. 1 \in Int /\ n - 1 \in Int /\ n \in Nat /\ n >= 1
    BY <1>3
  <2>2. Cardinality(1 .. n - 1) = IF 1 > n - 1 THEN 0 ELSE (n - 1) - 1 + 1
    BY <2>1, FS_Interval
  <2> QED
    BY <1>8, <2>1, <2>2
<1>10. IsFiniteSet(P) /\ IsFiniteSet(Q) /\ Cardinality(P) \in Nat
  BY PlacesFinite
<1> HIDE DEF P, Q
<1>11. Cardinality(Q \cup {n}) = Cardinality(Q) + 1
  BY <1>7, <1>10, FS_AddElement
<1>12. Cardinality(Q \cup {n}) <= Cardinality(P)
  <2>1. Q \cup {n} \subseteq P
    BY <1>7
  <2> QED
    BY <1>10, <2>1, FS_Subset
<1>13. n \in Nat
  BY <1>3
<1>14. Cardinality(Q) + 1 = n /\ Cardinality(Q) < Cardinality(P)
  BY <1>9, <1>10, <1>11, <1>12, <1>13
<1> QED
  BY <1>3, <1>6, <1>7, <1>14

LEMMA DeliverQueues ==
  ASSUME Standing, Types', Safe, InLine, setup.live, Deliver
  PROVE  [Queues!Next]_(Queues!vars)
<1>1. outbox' = outbox /\ setup' = setup /\ server.attempts # << >> /\ Types
  BY DeliverStands DEF Deliver, Standing
<1>2. CASE receipts' = receipts
  BY <1>1, <1>2, RestStep
<1>3. CASE Received
  <2>1. PICK t, n : t = Current.target /\ n = Current.index
    OBVIOUS
  <2> DEFINE s == receipts
             r == [index |-> n, target |-> t, message |-> Current.message]
             Mine(u) == {i \in DOMAIN s : s[i].target = u}
             Next1(u) == {i \in DOMAIN Append(s, r) : Append(s, r)[i].target = u}
  <2>2. /\ t \in Targets /\ n \in Messages /\ Cardinality(Served(t)) + 1 = n
        /\ Cardinality(Served(t)) < Cardinality(Offered(t))
    BY <1>1, <2>1, CurrentIsNext
  <2>3. s \in Seq(Receipts) /\ r \in Receipts /\ r.index = n /\ r.target = t
    BY <1>1, <2>1, CurrentFields, EntryFields DEF Standing, Types, Receipts
  <2>4. receipts' = Append(s, r)
    BY <1>3, <2>1 DEF Received
  <2>5. ASSUME NEW u PROVE /\ ReceivedBy(u) = Those(s, Mine(u))
                           /\ ReceivedBy(u)' = Those(Append(s, r), Next1(u))
    <3>1. Mine(u) = {i \in DOMAIN receipts : setup.live /\ receipts[i].target = u}
      OBVIOUS
    <3>2. Next1(u) = {i \in DOMAIN receipts' : setup'.live /\ receipts'[i].target = u}
      BY <1>1, <2>4
    <3> QED
      BY <2>4, <3>1, <3>2 DEF ReceivedBy
  <2> HIDE DEF r
  <2>6. /\ Len(s) \in Nat /\ DOMAIN s = 1 .. Len(s)
        /\ DOMAIN Append(s, r) = 1 .. Len(s) + 1 /\ Len(s) + 1 \in 1 .. Len(s) + 1
        /\ Append(s, r)[Len(s) + 1] = r
        /\ \A i \in DOMAIN s : i \in 1 .. Len(s) + 1 /\ Append(s, r)[i] = s[i]
    BY <2>3
  <2>7. ASSUME NEW u
        PROVE  /\ \A i \in DOMAIN s : i \in Mine(u) <=> i \in Next1(u)
               /\ Len(s) + 1 \in Next1(u) <=> u = t
    BY <2>3, <2>6
  <2> HIDE DEF Mine, Next1, s
  <2>8. ReceivedBy(t)' = Append(ReceivedBy(t), r)
    BY <2>3, <2>5, <2>7, ThoseAppend
  <2>9. ASSUME NEW u, u # t PROVE ReceivedBy(u)' = ReceivedBy(u)
    BY <2>3, <2>5, <2>7, <2>9, ThoseAppend
  <2>10. ReceivedBy(t) \in Seq(Receipts)
    BY <2>3, <2>5, ThosePlaces
  <2>11. IndexesIn(ReceivedBy(t)') = Append(IndexesIn(ReceivedBy(t)), n)
    BY <2>3, <2>8, <2>10, IndexesAppend
  <2>12. ASSUME NEW u \in Targets
         PROVE  Offered(u)' = Offered(u) /\ Served(u)' = Served(u)
    BY <1>1, OfferedServed, OfferedServedNext
  <2>13. Queues!Send(t)
    BY <2>2, <2>9, <2>11, <2>12, QueuesSend
  <2> QED
    BY <2>2, <2>13 DEF Queues!Next
<1> QED
  BY <1>2, <1>3 DEF Deliver

LEMMA DeliveredQueues ==
  ASSUME Standing, Types', Safe, InLine, setup.live, Delivered
  PROVE  [Queues!Next]_(Queues!vars)
<1>1. /\ receipts' = receipts /\ setup' = setup /\ server.attempts # << >> /\ Types
      /\ server.pc = "record" /\ outbox' = Mark(outbox, Key(Current), "delivered")
  BY DeliveredStands DEF Delivered, Standing
<1>2. PICK t, n : t = Current.target /\ n = Current.index
  OBVIOUS
<1> DEFINE s == outbox
           r == outbox'
<1>3. Key(Current) = << n, t >>
  BY <1>2 DEF Key
<1>4. /\ t \in Targets /\ n \in Messages /\ n \notin Served(t)
      /\ Cardinality(Served(t)) + 1 = n
  BY <1>1, <1>2, CurrentIsNext
<1>5. KeysIn(r) = KeysIn(s) /\ DoneIn(r) = DoneIn(s) \cup {<< n, t >>}
  BY <1>1, <1>3, CurrentInLine, MarkInLine DEF Statuses, InLine
<1>6. ASSUME NEW u \in Targets
      PROVE  /\ Offered(u)' = Offered(u) /\ ReceivedBy(u)' = ReceivedBy(u)
             /\ Served(u) = PlacesIn(DoneIn(s), u)
             /\ Served(u)' = PlacesIn(DoneIn(r), u)
  <2>1. /\ Offered(u) = PlacesIn(KeysIn(s), u) /\ Served(u) = PlacesIn(DoneIn(s), u)
        /\ Offered(u)' = PlacesIn(KeysIn(r), u) /\ Served(u)' = PlacesIn(DoneIn(r), u)
    BY <1>1, OfferedServed, OfferedServedNext
  <2>2. ReceivedBy(u)' = ReceivedBy(u)
    BY <1>1 DEF ReceivedBy
  <2> QED
    BY <1>5, <2>1, <2>2
<1>7. ASSUME NEW u \in Targets, u # t PROVE Served(u)' = Served(u)
  <2>1. PlacesIn(DoneIn(r), u) = PlacesIn(DoneIn(s), u)
    BY <1>5, <1>7 DEF PlacesIn
  <2> QED
    BY <1>6, <2>1
<1>8. Cardinality(Served(t)') = Cardinality(Served(t)) + 1
  <2> DEFINE P == PlacesIn(DoneIn(s), t)
             Q == PlacesIn(DoneIn(r), t)
  <2>1. Served(t) = P /\ Served(t)' = Q
    BY <1>4, <1>6
  <2>2. Q = P \cup {n} /\ n \notin P
    BY <1>4, <1>5, <2>1 DEF PlacesIn
  <2>3. IsFiniteSet(P)
    BY PlacesFinite
  <2> HIDE DEF P, Q
  <2>4. Cardinality(Q) = Cardinality(P) + 1
    BY <2>2, <2>3, FS_AddElement
  <2> QED
    BY <2>1, <2>4
<1> DEFINE z == receipts
           x == ReceivedBy(t)
           chosen == {i \in DOMAIN z : setup.live /\ z[i].target = t}
<1>9. z \in Seq(Receipts) /\ z # << >> /\ Key(z[Len(z)]) = << n, t >>
  BY <1>1, <1>3 DEF Types, InLine, JustReceived
<1>10. Len(z) \in chosen /\ z[Len(z)].index = n
  <2>1. Len(z) \in DOMAIN z
    BY <1>9
  <2>2. z[Len(z)].target = t /\ z[Len(z)].index = n
    BY <1>9 DEF Key
  <2> QED
    BY <2>1, <2>2
<1>11. x = Those(z, chosen)
  BY DEF ReceivedBy
<1> HIDE DEF z, chosen, x
<1>12. x \in Seq(Receipts) /\ x # << >> /\ x[Len(x)].index = n
  BY <1>9, <1>10, <1>11, ThoseLast
<1>13. /\ IndexesIn(x) # << >>
       /\ IndexesIn(x)[Len(IndexesIn(x))] = n
  <2> DEFINE m == Len(x)
             y == IndexesIn(x)
  <2>1. m \in Nat /\ m # 0 /\ DOMAIN x = 1 .. m /\ m \in 1 .. m
    BY <1>12
  <2>2. y = [i \in 1 .. m |-> x[i].index]
    BY <2>1 DEF IndexesIn
  <2>3. \A i \in 1 .. m : x[i].index \in Messages
    <3>1. \A i \in 1 .. m : x[i] \in Receipts
      BY <1>12, <2>1
    <3> QED
      BY <3>1 DEF Receipts
  <2> HIDE DEF m, y
  <2>4. y \in [1 .. m -> Messages] /\ y[m] = x[m].index /\ DOMAIN y = 1 .. m
    BY <2>1, <2>2, <2>3
  <2>5. y \in Seq(Messages) /\ Len(y) = m
    BY <2>1, <2>4
  <2>6. y # << >>
    BY <2>1, <2>5
  <2>7. y[Len(y)] = n
    BY <1>12, <2>4, <2>5 DEF m
  <2> QED
    BY <2>6, <2>7 DEF y
<1>14. Queues!Serve(t)
  BY <1>4, <1>6, <1>7, <1>8, <1>13, QueuesServe DEF x
<1> QED
  BY <1>4, <1>14 DEF Queues!Next

LEMMA QueuesStep ==
  ASSUME QInv, Types', [Next]_vars
  PROVE  [Queues!Next]_(Queues!vars)
<1>1. setup' = setup /\ Standing /\ Types
  BY SetupKept DEF QInv, IInv, Standing
<1>2. CASE ~ setup.live
  BY <1>1, <1>2, CopiesRest
<1>3. CASE setup.live
  <2>1. Safe /\ InLine
    BY <1>3 DEF QInv, IInv, NoStaleCopies
  <2>2. CASE ServerUpsert
    <3>1. Handy(server, written, target) /\ server.todo # << >>
      BY <1>1, <2>2 DEF Types, ServerUpsert
    <3>2. receipts' = receipts /\ outbox' = WithEntry(outbox, EntryToWrite(server))
          /\ SkipsNone(server.todo, target, KeysIn(outbox))
      BY <2>1, <2>2 DEF ServerUpsert, InLine
    <3> QED
      BY <1>1, <1>3, <2>1, <3>1, <3>2, UpsertQueues
  <2>3. CASE BackgroundUpsert
    <3>1. Handy(back, written, target) /\ back.todo # << >>
      BY <1>1, <2>3 DEF Types, BackgroundUpsert
    <3>2. receipts' = receipts /\ outbox' = WithEntry(outbox, EntryToWrite(back))
          /\ SkipsNone(back.todo, target, KeysIn(outbox))
      BY <2>1, <2>3 DEF BackgroundUpsert, InLine
    <3> QED
      BY <1>1, <1>3, <2>1, <3>1, <3>2, UpsertQueues
  <2>4. CASE Deliver
    BY <1>1, <1>3, <2>1, <2>4, DeliverQueues
  <2>5. CASE Delivered
    BY <1>1, <1>3, <2>1, <2>5, DeliveredQueues
  <2>6. CASE Delivering \/ Failed
    <3>1. server.attempts # << >> /\ receipts' = receipts
      BY <1>1, <2>6 DEF Delivering, Failed, Standing, Phases, Sending
    <3>2. KeysIn(outbox') = KeysIn(outbox) /\ DoneIn(outbox') = DoneIn(outbox)
      BY <1>1, <2>1, <2>6, <3>1, CurrentInLine, MarkInLine
         DEF Delivering, Failed, Statuses, InLine
    <3> QED
      BY <1>1, <1>3, <3>1, <3>2, RestStep
  <2>7. CASE Crash
    <3>1. outbox' \in Sorted(outbox) /\ receipts' = receipts /\ outbox \in Seq(Entries)
      BY <1>1, <2>7 DEF Crash, Types
    <3>2. KeysIn(outbox') = KeysIn(outbox) /\ DoneIn(outbox') = DoneIn(outbox)
      BY <3>1, SortedKeeps, SameLine
    <3> QED
      BY <1>1, <1>3, <3>1, <3>2, RestStep
  <2>8. CASE UNCHANGED << outbox, receipts >>
    BY <1>1, <1>3, <2>8, RestStep
  <2>9. \/ ServerUpsert \/ BackgroundUpsert \/ Deliver \/ Delivered \/ Delivering
        \/ Failed \/ Crash \/ UNCHANGED << outbox, receipts >>
    BY DEF Next, Dispatch, ServerStep, BackgroundStep, Turn, Commit, Prepare, Prepared,
           AllDelivered, Materialize, ListPending, BackgroundTurn, BackgroundCommit,
           Restart, vars
  <2> QED
    BY <2>2, <2>3, <2>4, <2>5, <2>6, <2>7, <2>8, <2>9
<1> QED
  BY <1>2, <1>3

LEMMA QueuesInit == Init => Queues!Init
<1> SUFFICES ASSUME Init PROVE Queues!Init
  OBVIOUS
<1>1. outbox = << >> /\ receipts = << >> /\ Types
  BY InitStanding DEF Init, Standing
<1>2. ASSUME NEW t
      PROVE  Offered(t) = {} /\ Served(t) = {} /\ ReceivedBy(t) = << >>
  <2>1. \A k : Status(k) = "none"
    BY <1>1 DEF Status, HasKey
  <2>2. Offered(t) = {} /\ Served(t) = {}
    BY <2>1 DEF Offered, Served
  <2>3. receipts \in Seq(Receipts) /\ DOMAIN receipts = {}
    BY <1>1 DEF Types
  <2>4. ReceivedBy(t) = << >>
    BY <2>3, ThoseNone DEF ReceivedBy
  <2> QED
    BY <2>2, <2>4
<1>3. ASSUME NEW t
      PROVE  /\ Cardinality(Offered(t)) = 0 /\ Cardinality(Served(t)) = 0
             /\ IndexesIn(ReceivedBy(t)) = << >>
  <2>1. Cardinality({}) = 0
    BY FS_EmptySet
  <2>2. IndexesIn(<< >>) = << >>
    BY DEF IndexesIn
  <2> QED
    BY <1>2, <2>1, <2>2
<1> QED
  BY <1>3 DEF Queues!Init, IndexesIn

LEMMA NextQInv == QInv /\ [Next]_vars => QInv'
<1> SUFFICES ASSUME QInv, [Next]_vars PROVE QInv'
  OBVIOUS
<1>1. setup' = setup /\ IInv'
  BY SetupKept, NextIInv DEF QInv
<1>2. setup.live => InLine'
  BY NextInLine DEF QInv, IInv, NoStaleCopies
<1> QED
  BY <1>1, <1>2 DEF QInv

(* As long as the store hands out the objects it keeps, each target gets    *)
(* its replies in the order of the turns, each again only until it is       *)
(* recorded as delivered, over dispatches that switch targets, failed       *)
(* deliveries, background turns, crashes and restarts: the outbox is a      *)
(* queue for each target (runtime_server.ts, runtime_dispatch.ts).          *)
THEOREM OutboxServesQueues == Spec => ServesQueues
<1>1. Init => QInv /\ Queues!Init
  BY InitStanding, InitSafe, InitInLine, QueuesInit DEF QInv, IInv
<1>2. QInv => Types
  BY DEF QInv, IInv, Standing
<1>3. QInv /\ QInv' /\ [Next]_vars => [Queues!Next]_(Queues!vars)
  BY <1>2, QueuesStep DEF QInv, IInv, Standing
<1> QED
  BY <1>1, <1>3, NextQInv, PTL DEF Spec, ServesQueues, Queues!Spec
=============================================================================
