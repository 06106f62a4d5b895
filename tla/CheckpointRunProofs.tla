------------------------ MODULE CheckpointRunProofs ------------------------
(***************************************************************************)
(* What a durable run keeps, for any graph, any number of inputs and any   *)
(* number of crashes, failed writes and failing models: effects are        *)
(* repeated no oftener than something failed, the stored history only      *)
(* grows, and the stored cursor never passes an input the stored session   *)
(* does not have.                                                          *)
(***************************************************************************)
EXTENDS CheckpointRun, SequenceTheorems, WellFoundedInduction, TLAPS

Message == 0 .. MaxInputs

TimerStates == {"none", "pending", "fired"}

RunsWith(Timers) ==
  [status : {"absent", "open", "done"}, session : Sessions,
   continued : BOOLEAN, cursor : Nat, at : 0 .. Size, inbox : Seq(Entries),
   timers : Timers, once : SUBSET Message]

Stored == RunsWith([DOMAIN setup.nodes -> TimerStates])

Attempt ==
  [entry : RunsWith([DOMAIN setup.nodes -> TimerStates] \cup {<< >>}),
   pos : 1 .. Size + 1, iterations : Nat, resumeFrom : 0 .. Size,
   skip : SUBSET Nat, consumed : Nat, session : Sessions]

Baselines == [version : Nat \cup {-1}, count : Nat]

Nodes == {"node", "memo", "loop", "end"}

Persisting == {"delta", "patch"}

Types ==
  /\ setup \in Setups
  /\ db \in Stored /\ run \in Stored
  /\ baseline \in Baselines
  /\ up \in BOOLEAN
  /\ attempt \in Attempt
  /\ sent \in 0 .. MaxInputs
  /\ crashes \in 0 .. MaxCrashes
  /\ failures \in 0 .. MaxFailures
  /\ errors \in 0 .. MaxErrors
  /\ calls \in [0 .. MaxInputs -> Nat]

(* Where an operation can stand.                                            *)
Phases ==
  /\ \/ pc \in {"idle", "create", "append", "reopen", "resume"} /\ after = "none"
     \/ pc \in Nodes /\ after = "execute"
     \/ pc \in Persisting /\ after \in {"execute", "done", "suspended", "rollback"}
  /\ pc \in {"create", "append"} => sent > 0
  /\ pc \in {"node", "memo", "loop"} => attempt.pos <= Size

Blank(r) == r = NewRun("absent", NoTimers(setup))

(* The run object and the stored run come into being together.              *)
Born ==
  /\ ~ Exists(db) => Blank(db)
  /\ ~ Exists(run) => Blank(run)
  /\ setup.cached => (Exists(run) <=> Exists(db))
  /\ pc = "create" => ~ Exists(db)
  /\ pc \notin {"idle", "create"} => Exists(run) /\ Exists(db)

(* The run object that an operation works with, and the one a cached store  *)
(* keeps, knows the timers and the memos of the stored run.                 *)
Current == pc # "idle" \/ setup.cached

TimersKnown ==
  Current => \A n \in DOMAIN setup.nodes :
               run.timers[n] = "none" => db.timers[n] = "none"

MemosKnown ==
  /\ Current => db.once \subseteq run.once
  /\ pc = "memo" => LastInput(attempt.session) \in run.once

(* An effect whose memo is stored, or about to be, was executed once more   *)
(* than something failed; any other was executed no oftener.                *)
Granted(key) ==
  IF key \in db.once \/ (pc = "memo" /\ key = LastInput(attempt.session))
  THEN 1 ELSE 0

Executed ==
  \A key \in DOMAIN calls : calls[key] <= crashes + failures + Granted(key)

IInv == Types /\ Phases /\ Born /\ TimersKnown /\ MemosKnown /\ Executed

-----------------------------------------------------------------------------
(* The cursor.                                                              *)

Elems(s) == {s.messages[j] : j \in DOMAIN s.messages}

(* The session has the first c inputs of the inbox.                         *)
Covers(s, inbox, c) ==
  c <= Len(inbox) /\ \A i \in 1 .. c : inbox[i].id \in Elems(s)

(* Session s is session e with messages added.                              *)
Grown(e, s) ==
  /\ Len(e.messages) <= Len(s.messages)
  /\ \A j \in 1 .. Len(e.messages) : s.messages[j] = e.messages[j]
  /\ s.version + Len(e.messages) = e.version + Len(s.messages)

(* The store has all that session s has.                                    *)
Behind(s) ==
  /\ Elems(s) \subseteq Elems(db.session)
  /\ s.version <= db.session.version
  /\ Len(s.messages) <= Len(db.session.messages)

Walking == pc \in Nodes \/ (pc \in Persisting /\ after = "execute")

(* What the attempt has come to is in the run object and not yet written.   *)
Recorded == pc = "delta" /\ after \in {"done", "suspended"}

StoredCovered ==
  /\ Covers(db.session, db.inbox, db.cursor)
  /\ \A i \in DOMAIN db.inbox : db.inbox[i].offset = i - 1
  /\ pc = "append" => run.inbox = db.inbox
  /\ baseline.version <= db.session.version
  /\ baseline.count <= Len(db.session.messages)

(* An attempt starts from what is stored, adds messages to it and takes no  *)
(* input it does not add.                                                   *)
AttemptCovered ==
  pc \in Nodes \cup Persisting =>
    LET e == attempt.entry IN
      /\ e.inbox = db.inbox /\ run.inbox = db.inbox
      /\ Covers(e.session, db.inbox, e.cursor)
      /\ Covers(attempt.session, db.inbox, e.cursor + attempt.consumed)
      /\ Covers(run.session, db.inbox, run.cursor)
      /\ Grown(e.session, attempt.session)
      /\ Behind(e.session)
      /\ Walking \/ Recorded => db.session = e.session
      /\ Walking \/ (pc = "delta" /\ after = "rollback") => run.session = e.session
      /\ Recorded => run.session = attempt.session
      /\ pc = "patch" => Elems(run.session) \subseteq Elems(db.session)
      /\ ~ (pc = "delta" /\ after = "execute") => baseline # NoBaseline

(* A cached store whose writes never failed differs from the run object     *)
(* only while an attempt is being written.                                  *)
Synced ==
  setup.cached =>
    /\ run.inbox = db.inbox
    /\ baseline \in {NoBaseline, BaselineOf(db.session)}
    /\ ~ Recorded => run.session = db.session
    /\ Covers(run.session, run.inbox, run.cursor)

Covered == StoredCovered /\ AttemptCovered /\ Synced

CInv == StoreKeepsUp => Covered

-----------------------------------------------------------------------------
(* Each input once.  As long as nothing crashed and no write failed, the    *)
(* inputs a session delivers are those before a cursor.                     *)

Calm == crashes + failures = 0

Exact(s, inbox, c) ==
  c <= Len(inbox) /\ Delivered(s) = Ids(SubSeq(inbox, 1, c))

(* Between the delta and the patch the stored cursor is behind the session. *)
StoredExact ==
  /\ baseline \in {NoBaseline, BaselineOf(db.session)}
  /\ pc # "patch" => Exact(db.session, db.inbox, db.cursor)
  /\ pc = "patch" => db.session = run.session
  /\ setup.cached /\ pc \notin Nodes \cup Persisting => run.cursor = db.cursor

AttemptExact ==
  pc \in Nodes \cup Persisting =>
    LET e == attempt.entry IN
      /\ Exact(e.session, db.inbox, e.cursor)
      /\ Exact(attempt.session, db.inbox, e.cursor + attempt.consumed)
      /\ Exact(run.session, db.inbox, run.cursor)
      /\ after = "rollback" => db.session = e.session

EInv == Calm => StoredExact /\ AttemptExact

(* An attempt goes on: b is a with messages added and inputs taken, each of  *)
(* them one of the messages, and the inputs among them are those, in order. *)
Continues(a, b) ==
  /\ b.entry = a.entry
  /\ Grown(a.session, b.session)
  /\ a.consumed <= b.consumed
  /\ b.consumed > a.consumed =>
       a.entry.cursor + b.consumed <= Len(a.entry.inbox)
  /\ \A i \in a.entry.cursor + a.consumed + 1 .. a.entry.cursor + b.consumed :
       a.entry.inbox[i].id \in Elems(b.session)
  /\ Delivered(b.session) =
       Delivered(a.session) \o Ids(SubSeq(a.entry.inbox, a.entry.cursor + a.consumed + 1,
                                          a.entry.cursor + b.consumed))

-----------------------------------------------------------------------------
(* The inputs a session delivers.  Delivered is a recursive function, and   *)
(* what it computes is found by induction on how far it has come.           *)

(* A set of numbers with a least one for each that is not empty: the        *)
(* relation < is well founded.                                              *)
LEMMA Least ==
  ASSUME NEW T, T \subseteq Nat, T # {}
  PROVE  \E x \in T : \A y \in T : x <= y
<1> DEFINE R == {p \in Nat \X Nat : p[1] < p[2]}
<1>1. R = OpToRel(<, Nat)
  BY DEF OpToRel
<1>2. IsWellFoundedOn(R, Nat)
  BY <1>1, NatLessThanWellFounded
<1>3. PICK x \in T : \A y \in T : ~ (<< y, x >> \in R)
  BY <1>2, WFMin
<1>4. \A y \in T : << y, x >> \in Nat \X Nat /\ x \in Nat /\ y \in Nat
  BY <1>3
<1>5. \A y \in T : ~ (y < x)
  BY <1>3, <1>4
<1> QED
  BY <1>4, <1>5

(* Induction: a set that has 0, and the successor of each number it has,    *)
(* has all of them, for there is no least one it has not.                   *)
LEMMA SetInduction ==
  ASSUME NEW T, 0 \in T, \A k \in Nat : k \in T => k + 1 \in T
  PROVE  Nat \subseteq T
<1> DEFINE U == Nat \ T
<1> SUFFICES ASSUME U # {} PROVE FALSE
  OBVIOUS
<1>1. PICK x \in U : \A y \in U : x <= y
  <2>1. U \subseteq Nat
    OBVIOUS
  <2> HIDE DEF U
  <2> QED
    BY <2>1, Least
<1>2. x \in Nat /\ x # 0
  BY <1>1
<1>3. x - 1 \in Nat /\ (x - 1) + 1 = x /\ ~ x <= x - 1
  BY <1>2
<1>4. x - 1 \in T
  BY <1>1, <1>3
<1>5. x \in T
  BY <1>3, <1>4
<1> QED
  BY <1>1, <1>5

Unfolds(f, q, n) ==
  f = [i \in 0 .. n |-> IF i = 0 THEN << >>
                        ELSE IF IsInput(q[i]) THEN Append(f[i - 1], q[i])
                        ELSE f[i - 1]]

UpTo(q, n) == CHOOSE f : Unfolds(f, q, n)

(* The inputs among the first i messages of q.                              *)
Inputs(q, i) == UpTo(q, Len(q))[i]

LEMMA DeliveredInputs ==
  ASSUME NEW s
  PROVE  Delivered(s) = Inputs(s.messages, Len(s.messages))
BY DEF Delivered, Inputs, UpTo, Unfolds

LEMMA UnfoldsExists ==
  ASSUME NEW q, NEW n \in Nat
  PROVE  \E f : Unfolds(f, q, n)
<1> DEFINE T == {k \in Nat : \E f : Unfolds(f, q, k)}
<1>1. 0 \in T
  <2>1. Unfolds([i \in 0 .. 0 |-> << >>], q, 0)
    BY DEF Unfolds
  <2> QED
    BY <2>1
<1>2. ASSUME NEW k \in Nat, k \in T PROVE k + 1 \in T
  <2>1. PICK f : Unfolds(f, q, k)
    BY <1>2
  <2> DEFINE m == k + 1
             v == IF IsInput(q[m]) THEN Append(f[k], q[m]) ELSE f[k]
             g == [i \in 0 .. m |-> IF i = m THEN v ELSE f[i]]
             h == [i \in 0 .. m |-> IF i = 0 THEN << >>
                                    ELSE IF IsInput(q[i]) THEN Append(g[i - 1], q[i])
                                    ELSE g[i - 1]]
  <2>2. ASSUME NEW i \in 0 .. m PROVE g[i] = h[i]
    <3>1. CASE i = m
      <4>1. i # 0 /\ i - 1 \in 0 .. m /\ i - 1 # m /\ i - 1 = k
        BY <3>1
      <4>2. g[i - 1] = f[k] /\ g[i] = v
        BY <3>1, <4>1
      <4> QED
        BY <3>1, <4>1, <4>2
    <3>2. CASE i # m /\ i # 0
      <4>1. i \in 0 .. k /\ i - 1 \in 0 .. m /\ i - 1 # m
        BY <3>2
      <4>2. g[i] = f[i] /\ g[i - 1] = f[i - 1]
        BY <3>2, <4>1
      <4>3. f[i] = IF IsInput(q[i]) THEN Append(f[i - 1], q[i]) ELSE f[i - 1]
        BY <2>1, <3>2, <4>1 DEF Unfolds
      <4> QED
        BY <3>2, <4>2, <4>3
    <3>3. CASE i = 0 /\ i # m
      <4>1. 0 \in 0 .. k
        OBVIOUS
      <4>2. f[0] = << >>
        BY <2>1, <4>1 DEF Unfolds
      <4> QED
        BY <3>3, <4>2
    <3> QED
      BY <3>1, <3>2, <3>3
  <2>3. g = h
    BY <2>2
  <2>4. Unfolds(g, q, m)
    BY <2>3 DEF Unfolds
  <2> QED
    BY <2>4
<1>3. Nat \subseteq T
  <2> HIDE DEF T
  <2> QED
    BY <1>1, <1>2, SetInduction
<1> QED
  BY <1>3

LEMMA InputsStep ==
  ASSUME NEW S, NEW q \in Seq(S)
  PROVE  /\ Inputs(q, 0) = << >>
         /\ \A i \in 0 .. Len(q) - 1 :
              Inputs(q, i + 1) = IF IsInput(q[i + 1]) THEN Append(Inputs(q, i), q[i + 1])
                                 ELSE Inputs(q, i)
<1> DEFINE n == Len(q)
           f == UpTo(q, n)
<1>1. n \in Nat
  BY LenProperties
<1>2. Unfolds(f, q, n)
  BY <1>1, UnfoldsExists DEF UpTo
<1> HIDE DEF f
<1>3. f[0] = << >>
  BY <1>1, <1>2 DEF Unfolds
<1>4. ASSUME NEW i \in 0 .. n - 1
      PROVE  f[i + 1] = IF IsInput(q[i + 1]) THEN Append(f[i], q[i + 1]) ELSE f[i]
  <2>1. i + 1 \in 0 .. n /\ i + 1 # 0 /\ (i + 1) - 1 = i
    BY <1>1
  <2> QED
    BY <1>2, <2>1 DEF Unfolds
<1> QED
  BY <1>3, <1>4 DEF Inputs, f

LEMMA InputsTypes ==
  ASSUME NEW S, NEW q \in Seq(S), NEW i \in 0 .. Len(q)
  PROVE  Inputs(q, i) \in Seq(S)
<1> DEFINE n == Len(q)
           T == {k \in Nat : k <= n => Inputs(q, k) \in Seq(S)}
<1>1. n \in Nat
  BY LenProperties
<1>2. 0 \in T
  BY InputsStep, EmptySeq
<1>3. ASSUME NEW k \in Nat, k \in T PROVE k + 1 \in T
  <2> SUFFICES ASSUME k + 1 <= n PROVE Inputs(q, k + 1) \in Seq(S)
    OBVIOUS
  <2>1. k \in 0 .. n - 1 /\ k <= n /\ k + 1 \in 1 .. n
    BY <1>1
  <2>2. Inputs(q, k) \in Seq(S) /\ q[k + 1] \in S
    BY <1>3, <2>1, ElementOfSeq
  <2>3. Inputs(q, k + 1) \in {Append(Inputs(q, k), q[k + 1]), Inputs(q, k)}
    BY <2>1, InputsStep
  <2>4. Append(Inputs(q, k), q[k + 1]) \in Seq(S)
    BY <2>2, AppendProperties
  <2> QED
    BY <2>2, <2>3, <2>4
<1>4. Nat \subseteq T
  <2> HIDE DEF T
  <2> QED
    BY <1>2, <1>3, SetInduction
<1> QED
  BY <1>1, <1>4

(* Messages that follow do not change the inputs before them.               *)
LEMMA InputsBefore ==
  ASSUME NEW S, NEW q \in Seq(S), NEW r \in Seq(S), Len(q) <= Len(r),
         \A j \in 1 .. Len(q) : r[j] = q[j]
  PROVE  Inputs(r, Len(q)) = Inputs(q, Len(q))
<1> DEFINE n == Len(q)
           T == {k \in Nat : k <= n => Inputs(r, k) = Inputs(q, k)}
<1>1. n \in Nat /\ Len(r) \in Nat
  BY LenProperties
<1>2. 0 \in T
  <2>1. Inputs(q, 0) = << >>
    BY InputsStep
  <2>2. Inputs(r, 0) = << >>
    BY InputsStep
  <2> QED
    BY <2>1, <2>2
<1>3. ASSUME NEW k \in Nat, k \in T PROVE k + 1 \in T
  <2> SUFFICES ASSUME k + 1 <= n PROVE Inputs(r, k + 1) = Inputs(q, k + 1)
    OBVIOUS
  <2>1. k \in 0 .. n - 1 /\ k <= n /\ k + 1 \in 1 .. n /\ k \in 0 .. Len(r) - 1
    BY <1>1
  <2>2. Inputs(r, k) = Inputs(q, k) /\ r[k + 1] = q[k + 1]
    BY <1>3, <2>1
  <2>3. Inputs(q, k + 1) = IF IsInput(q[k + 1]) THEN Append(Inputs(q, k), q[k + 1])
                           ELSE Inputs(q, k)
    BY <2>1, InputsStep
  <2>4. Inputs(r, k + 1) = IF IsInput(r[k + 1]) THEN Append(Inputs(r, k), r[k + 1])
                           ELSE Inputs(r, k)
    BY <2>1, InputsStep
  <2> QED
    BY <2>2, <2>3, <2>4
<1>4. Nat \subseteq T
  <2> HIDE DEF T
  <2> QED
    BY <1>2, <1>3, SetInduction
<1> QED
  BY <1>1, <1>4

(* Other messages do not change what was delivered ...                      *)
LEMMA OthersDeliverNothing ==
  ASSUME NEW S, NEW q \in Seq(S), NEW t \in Seq(S),
         \A i \in 1 .. Len(t) : ~ IsInput(t[i])
  PROVE  Inputs(q \o t, Len(q \o t)) = Inputs(q, Len(q))
<1> DEFINE r == q \o t
           n == Len(q)
           m == Len(t)
           d == Inputs(q, n)
           T == {k \in Nat : k <= m => Inputs(r, n + k) = d}
<1>1. /\ n \in Nat /\ m \in Nat /\ r \in Seq(S) /\ Len(r) = n + m
      /\ \A i \in 1 .. n + m : r[i] = IF i <= n THEN q[i] ELSE t[i - n]
  BY LenProperties, ConcatProperties
<1> HIDE DEF r
<1>2. 0 \in T
  <2>1. n <= Len(r) /\ \A j \in 1 .. n : r[j] = q[j]
    BY <1>1
  <2>2. Inputs(r, n) = d
    BY <1>1, <2>1, InputsBefore
  <2>3. n + 0 = n
    BY <1>1
  <2> QED
    BY <2>2, <2>3
<1>3. ASSUME NEW k \in Nat, k \in T PROVE k + 1 \in T
  <2> SUFFICES ASSUME k + 1 <= m PROVE Inputs(r, n + (k + 1)) = d
    OBVIOUS
  <2> DEFINE j == n + k
  <2>1. /\ j \in 0 .. Len(r) - 1 /\ k <= m /\ k + 1 \in 1 .. m /\ n + (k + 1) = j + 1
        /\ j + 1 \in 1 .. n + m /\ ~ j + 1 <= n /\ (j + 1) - n = k + 1
    BY <1>1
  <2>2. Inputs(r, j) = d
    BY <1>3, <2>1
  <2>3. r[j + 1] = t[k + 1]
    BY <1>1, <2>1
  <2> HIDE DEF j
  <2>4. Inputs(r, j + 1) = Inputs(r, j)
    BY <1>1, <2>1, <2>3, InputsStep
  <2> QED
    BY <2>1, <2>2, <2>4
<1>4. Nat \subseteq T
  <2> HIDE DEF T
  <2> QED
    BY <1>2, <1>3, SetInduction
<1> QED
  BY <1>1, <1>4 DEF r

(* ... and inputs are delivered in their order.                             *)
LEMMA InputsAreDelivered ==
  ASSUME NEW S, NEW q \in Seq(S), NEW t \in Seq(S),
         \A i \in 1 .. Len(t) : IsInput(t[i])
  PROVE  Inputs(q \o t, Len(q \o t)) = Inputs(q, Len(q)) \o t
<1> DEFINE r == q \o t
           n == Len(q)
           m == Len(t)
           d == Inputs(q, n)
           l == Len(d)
           Has(x, k) == /\ x \in Seq(S) /\ Len(x) = l + k
                        /\ \A i \in 1 .. l : x[i] = d[i]
                        /\ \A i \in 1 .. k : x[l + i] = t[i]
           T == {k \in Nat : k <= m => Has(Inputs(r, n + k), k)}
<1>1. /\ n \in Nat /\ m \in Nat /\ r \in Seq(S) /\ Len(r) = n + m
      /\ \A i \in 1 .. n + m : r[i] = IF i <= n THEN q[i] ELSE t[i - n]
  BY LenProperties, ConcatProperties
<1>2. d \in Seq(S) /\ l \in Nat
  BY <1>1, InputsTypes, LenProperties
<1> HIDE DEF r, d
<1>3. 0 \in T
  <2>1. n <= Len(r) /\ \A j \in 1 .. n : r[j] = q[j]
    BY <1>1
  <2>2. Inputs(r, n) = d
    BY <1>1, <2>1, InputsBefore DEF d
  <2>3. n + 0 = n /\ l + 0 = l
    BY <1>1, <1>2
  <2> QED
    BY <1>2, <2>2, <2>3
<1>4. ASSUME NEW k \in Nat, k \in T PROVE k + 1 \in T
  <2> SUFFICES ASSUME k + 1 <= m PROVE Has(Inputs(r, n + (k + 1)), k + 1)
    OBVIOUS
  <2> DEFINE j == n + k
             x == Inputs(r, j)
             y == Inputs(r, j + 1)
  <2>1. /\ j \in 0 .. Len(r) - 1 /\ k <= m /\ k + 1 \in 1 .. m /\ n + (k + 1) = j + 1
        /\ j + 1 \in 1 .. n + m /\ ~ j + 1 <= n /\ (j + 1) - n = k + 1
    BY <1>1
  <2>2. Has(x, k)
    BY <1>4, <2>1
  <2>3. r[j + 1] = t[k + 1] /\ t[k + 1] \in S
    BY <1>1, <2>1, ElementOfSeq
  <2>4. y = Append(x, t[k + 1])
    <3> HIDE DEF j
    <3> QED
      BY <1>1, <2>1, <2>3, InputsStep
  <2> HIDE DEF x, y, j
  <2>5. /\ y \in Seq(S) /\ Len(y) = Len(x) + 1
        /\ \A i \in 1 .. Len(x) : y[i] = x[i]
        /\ y[Len(x) + 1] = t[k + 1]
    BY <2>2, <2>3, <2>4, AppendProperties
  <2>6. Len(x) = l + k /\ Len(y) = l + (k + 1) /\ Len(x) + 1 = l + (k + 1)
    BY <1>2, <2>2, <2>5
  <2>7. \A i \in 1 .. l : y[i] = d[i]
    BY <1>2, <2>2, <2>5, <2>6
  <2>8. ASSUME NEW i \in 1 .. k + 1 PROVE y[l + i] = t[i]
    <3>1. CASE i = k + 1
      BY <2>5, <2>6, <3>1
    <3>2. CASE i # k + 1
      <4>1. i \in 1 .. k /\ l + i \in 1 .. l + k
        BY <1>2, <3>2
      <4> QED
        BY <2>2, <2>5, <2>6, <4>1
    <3> QED
      BY <3>1, <3>2
  <2>9. Has(y, k + 1)
    BY <2>5, <2>6, <2>7, <2>8
  <2> HIDE DEF Has
  <2> QED
    BY <2>1, <2>9 DEF y
<1>5. Nat \subseteq T
  <2> HIDE DEF T
  <2> QED
    BY <1>3, <1>4, SetInduction
<1> DEFINE x == Inputs(r, n + m)
<1>6. Has(x, m)
  BY <1>1, <1>5
<1> HIDE DEF x
<1>7. /\ d \o t \in Seq(S) /\ Len(d \o t) = l + m
      /\ \A i \in 1 .. l + m : (d \o t)[i] = IF i <= l THEN d[i] ELSE t[i - l]
  BY <1>2, ConcatProperties
<1>8. ASSUME NEW i \in 1 .. l + m PROVE x[i] = (d \o t)[i]
  <2>1. CASE i <= l
    BY <1>2, <1>6, <1>7, <2>1
  <2>2. CASE ~ i <= l
    <3>1. i - l \in 1 .. m /\ l + (i - l) = i
      BY <1>1, <1>2, <2>2
    <3>2. x[l + (i - l)] = t[i - l]
      BY <1>6, <3>1
    <3> QED
      BY <1>7, <2>2, <3>1, <3>2
  <2> QED
    BY <2>1, <2>2
<1>9. x = d \o t
  BY <1>6, <1>7, <1>8, SeqEqual
<1> QED
  BY <1>1, <1>9 DEF x, d, r

-----------------------------------------------------------------------------
(* The operators of the model.                                              *)

USE BoundsAssumption

LEMMA SetupFields ==
  ASSUME setup \in Setups
  PROVE  /\ setup.nodes \in Seq(Kinds) /\ Size \in Nat /\ Size > 0
         /\ DOMAIN setup.nodes = 1 .. Size
         /\ setup.loopStart \in 1 .. Size + 1
         /\ setup.maxIterations \in Nat
         /\ setup.cached \in BOOLEAN /\ setup.canExit \in BOOLEAN
BY SetupsAssumption DEF Size

LEMMA ComingNodes ==
  ASSUME setup \in Setups, NEW n \in 1 .. Size + 1
  PROVE  /\ Coming(n) \in {"node", "loop", "end"}
         /\ Coming(n) # "end" => n <= Size
BY SetupFields DEF Coming

LEMMA FollowingNodes ==
  ASSUME setup \in Setups, NEW n \in 1 .. Size
  PROVE  Following(n) \in 1 .. Size + 1
BY SetupFields DEF Following

LEMMA Messages == Other \in Message /\ Message \subseteq Nat
BY DEF Message, Other

LEMMA SessionFields ==
  ASSUME NEW s \in Sessions
  PROVE  /\ s.version \in Nat /\ s.messages \in Seq(Message)
         /\ Len(s.messages) \in Nat /\ DOMAIN s.messages = 1 .. Len(s.messages)
         /\ Elems(s) \subseteq Message
         /\ Grown(s, s)
BY DEF Sessions, Message, Elems, Grown

LEMMA GrownTwice ==
  ASSUME NEW s \in Sessions, NEW t \in Sessions, NEW u \in Sessions,
         Grown(s, t), Grown(t, u)
  PROVE  Grown(s, u)
<1>1. /\ Len(s.messages) \in Nat /\ Len(t.messages) \in Nat /\ Len(u.messages) \in Nat
      /\ s.version \in Nat /\ t.version \in Nat /\ u.version \in Nat
  BY SessionFields
<1>2. /\ Len(s.messages) <= Len(u.messages)
      /\ u.version + Len(s.messages) = s.version + Len(u.messages)
  <2>1. /\ Len(s.messages) <= Len(t.messages)
        /\ t.version + Len(s.messages) = s.version + Len(t.messages)
    BY DEF Grown
  <2>2. /\ Len(t.messages) <= Len(u.messages)
        /\ u.version + Len(t.messages) = t.version + Len(u.messages)
    BY DEF Grown
  <2> DEFINE ls == Len(s.messages)
             lt == Len(t.messages)
             lu == Len(u.messages)
             vs == s.version
             vt == t.version
             vu == u.version
  <2>3. /\ ls \in Nat /\ lt \in Nat /\ lu \in Nat
        /\ vs \in Nat /\ vt \in Nat /\ vu \in Nat
    BY <1>1
  <2>4. ls <= lt /\ vt + ls = vs + lt /\ lt <= lu /\ vu + lt = vt + lu
    BY <2>1, <2>2
  <2> HIDE DEF ls, lt, lu, vs, vt, vu
  <2>5. ls <= lu /\ vu + ls = vs + lu
    BY <2>3, <2>4
  <2> QED
    BY <2>5 DEF ls, lu, vs, vu
<1>3. ASSUME NEW j \in 1 .. Len(s.messages) PROVE u.messages[j] = s.messages[j]
  <2>1. Len(s.messages) <= Len(t.messages) /\ t.messages[j] = s.messages[j]
    BY DEF Grown
  <2>2. j \in 1 .. Len(t.messages)
    BY <1>1, <2>1
  <2> QED
    BY <2>1, <2>2 DEF Grown
<1> QED
  BY <1>2, <1>3 DEF Grown

LEMMA GrownElems ==
  ASSUME NEW s \in Sessions, NEW t \in Sessions, Grown(s, t)
  PROVE  /\ Elems(s) \subseteq Elems(t) /\ s.version <= t.version
         /\ t.version = s.version => t = s
<1>1. /\ DOMAIN s.messages = 1 .. Len(s.messages) /\ Len(s.messages) \in Nat
      /\ DOMAIN t.messages = 1 .. Len(t.messages) /\ Len(t.messages) \in Nat
      /\ s.version \in Nat /\ t.version \in Nat
      /\ s.messages \in Seq(Message) /\ t.messages \in Seq(Message)
  BY SessionFields
<1>2. Elems(s) \subseteq Elems(t) /\ s.version <= t.version
  BY <1>1 DEF Elems, Grown
<1>3. ASSUME t.version = s.version PROVE t = s
  <2>1. Len(s.messages) = Len(t.messages)
    BY <1>1, <1>3 DEF Grown
  <2>2. s.messages = t.messages
    BY <1>1, <2>1, SeqEqual DEF Grown
  <2> QED
    BY <1>3, <2>2 DEF Sessions
<1> QED
  BY <1>2, <1>3

(* The inputs of a part of an inbox.                                        *)
LEMMA SliceTypes ==
  ASSUME NEW inbox \in Seq(Entries), NEW lo \in Nat, NEW hi \in Nat, lo <= hi,
         lo < hi => hi <= Len(inbox)
  PROVE  LET t == Ids(SubSeq(inbox, lo + 1, hi)) IN
         /\ t \in Seq(Message) /\ Len(t) = hi - lo
         /\ \A i \in 1 .. hi - lo : t[i] = inbox[lo + i].id /\ IsInput(t[i])
<1> DEFINE part == SubSeq(inbox, lo + 1, hi)
           n    == hi - lo
           t    == Ids(part)
<1>1. n \in Nat /\ lo + 1 \in Int /\ hi \in Int /\ Len(inbox) \in Nat
  BY LenProperties
<1>2. \A i \in lo + 1 .. hi : inbox[i] \in Entries
  BY <1>1, ElementOfSeq
<1>3. /\ part \in Seq(Entries) /\ Len(part) = n
      /\ \A i \in 1 .. n : part[i] = inbox[lo + i]
  <2>1. /\ part \in Seq(Entries)
        /\ Len(part) = IF lo + 1 <= hi THEN hi - (lo + 1) + 1 ELSE 0
        /\ \A i \in 1 .. hi - (lo + 1) + 1 : part[i] = inbox[lo + 1 + i - 1]
    BY <1>1, <1>2, SubSeqProperties
  <2>2. hi - (lo + 1) + 1 = n /\ (~ lo + 1 <= hi => n = 0)
    BY <1>1
  <2>3. \A i \in 1 .. n : lo + 1 + i - 1 = lo + i
    BY <1>1
  <2> HIDE DEF part, n
  <2> QED
    BY <2>1, <2>2, <2>3
<1> HIDE DEF part
<1>4. DOMAIN part = 1 .. n
  BY <1>3, LenProperties
<1>5. t = [i \in 1 .. n |-> part[i].id]
  BY <1>4 DEF Ids
<1>6. ASSUME NEW i \in 1 .. n
      PROVE  part[i].id \in 1 .. MaxInputs
  <2>1. part[i] \in Entries
    BY <1>3, ElementOfSeq
  <2> QED
    BY <2>1 DEF Entries
<1>7. \A i \in 1 .. n : part[i].id \in Message /\ IsInput(part[i].id)
  BY <1>6 DEF Message, IsInput, Other
<1>8. t \in [1 .. n -> Message]
  BY <1>5, <1>7
<1>9. t \in Seq(Message) /\ Len(t) = n
  BY <1>1, <1>8
<1>10. \A i \in 1 .. n : t[i] = inbox[lo + i].id /\ IsInput(t[i])
  BY <1>3, <1>5, <1>7
<1> QED
  BY <1>9, <1>10 DEF part

LEMMA SlicesJoin ==
  ASSUME NEW inbox \in Seq(Entries), NEW lo \in Nat, NEW hi \in Nat, lo <= hi,
         hi <= Len(inbox)
  PROVE  Ids(SubSeq(inbox, 1, lo)) \o Ids(SubSeq(inbox, lo + 1, hi))
           = Ids(SubSeq(inbox, 1, hi))
<1> DEFINE a == Ids(SubSeq(inbox, 1, lo))
           b == Ids(SubSeq(inbox, lo + 1, hi))
           c == Ids(SubSeq(inbox, 1, hi))
<1>0. Len(inbox) \in Nat /\ 0 \in Nat /\ 0 + 1 = 1
  BY LenProperties
<1>1. a \in Seq(Message) /\ Len(a) = lo /\ \A i \in 1 .. lo : a[i] = inbox[i].id
  <2>1. 0 <= lo /\ (0 < lo => lo <= Len(inbox)) /\ lo - 0 = lo
    BY <1>0
  <2>2. \A i \in 1 .. lo : 0 + i = i
    OBVIOUS
  <2> QED
    BY <1>0, <2>1, <2>2, SliceTypes
<1>2. /\ b \in Seq(Message) /\ Len(b) = hi - lo
      /\ \A i \in 1 .. hi - lo : b[i] = inbox[lo + i].id
  BY SliceTypes
<1>3. c \in Seq(Message) /\ Len(c) = hi /\ \A i \in 1 .. hi : c[i] = inbox[i].id
  <2>1. 0 <= hi /\ (0 < hi => hi <= Len(inbox)) /\ hi - 0 = hi
    BY <1>0
  <2>2. \A i \in 1 .. hi : 0 + i = i
    OBVIOUS
  <2> QED
    BY <1>0, <2>1, <2>2, SliceTypes
<1> HIDE DEF a, b, c
<1>4. /\ a \o b \in Seq(Message) /\ Len(a \o b) = lo + (hi - lo)
      /\ \A i \in 1 .. lo + (hi - lo) : (a \o b)[i] = IF i <= lo THEN a[i] ELSE b[i - lo]
  BY <1>1, <1>2, ConcatProperties
<1>5. lo + (hi - lo) = hi
  OBVIOUS
<1>6. ASSUME NEW i \in 1 .. hi PROVE (a \o b)[i] = c[i]
  <2>1. CASE i <= lo
    <3>1. i \in 1 .. lo /\ i \in 1 .. lo + (hi - lo)
      BY <1>5, <2>1
    <3> QED
      BY <1>1, <1>3, <1>4, <2>1, <3>1
  <2>2. CASE ~ i <= lo
    <3>1. i - lo \in 1 .. hi - lo /\ lo + (i - lo) = i
      BY <2>2
    <3> QED
      BY <1>2, <1>3, <1>4, <1>5, <2>2, <3>1
  <2> QED
    BY <2>1, <2>2
<1>7. a \o b = c
  BY <1>3, <1>4, <1>5, <1>6, SeqEqual
<1> QED
  BY <1>7 DEF a, b, c

LEMMA SliceAppended ==
  ASSUME NEW inbox \in Seq(Entries), NEW e \in Entries, NEW c \in 0 .. Len(inbox)
  PROVE  Ids(SubSeq(Append(inbox, e), 1, c)) = Ids(SubSeq(inbox, 1, c))
<1> DEFINE longer == Append(inbox, e)
           a == Ids(SubSeq(inbox, 1, c))
           b == Ids(SubSeq(longer, 1, c))
<1>1. /\ Len(inbox) \in Nat /\ longer \in Seq(Entries) /\ Len(longer) = Len(inbox) + 1
      /\ \A i \in 1 .. Len(inbox) : longer[i] = inbox[i]
  BY LenProperties, AppendProperties
<1>2. /\ 0 \in Nat /\ c \in Nat /\ 0 + 1 = 1 /\ 0 <= c /\ c - 0 = c
      /\ (0 < c => c <= Len(inbox)) /\ (0 < c => c <= Len(inbox) + 1)
  BY <1>1
<1>3. \A i \in 1 .. c : 0 + i = i
  BY <1>2
<1>4. a \in Seq(Message) /\ Len(a) = c /\ \A i \in 1 .. c : a[i] = inbox[i].id
  <2> HIDE DEF longer
  <2>1. LET t == Ids(SubSeq(inbox, 0 + 1, c)) IN
        /\ t \in Seq(Message) /\ Len(t) = c - 0
        /\ \A i \in 1 .. c - 0 : t[i] = inbox[0 + i].id
    BY <1>2, SliceTypes
  <2> QED
    BY <1>2, <1>3, <2>1
<1> HIDE DEF longer
<1>5. b \in Seq(Message) /\ Len(b) = c /\ \A i \in 1 .. c : b[i] = longer[i].id
  <2>1. longer \in Seq(Entries) /\ (0 < c => c <= Len(longer))
    BY <1>1, <1>2
  <2>2. LET t == Ids(SubSeq(longer, 0 + 1, c)) IN
        /\ t \in Seq(Message) /\ Len(t) = c - 0
        /\ \A i \in 1 .. c - 0 : t[i] = longer[0 + i].id
    BY <1>2, <2>1, SliceTypes
  <2> QED
    BY <1>2, <1>3, <2>2
<1>6. ASSUME NEW i \in 1 .. c PROVE b[i] = a[i]
  <2>1. longer[i] = inbox[i]
    BY <1>1
  <2> QED
    BY <1>4, <1>5, <2>1
<1> HIDE DEF a, b
<1>7. a = b
  BY <1>4, <1>5, <1>6, SeqEqual
<1> QED
  BY <1>7 DEF a, b, longer

(* What is said is in the session.                                          *)
LEMMA SayTypes ==
  ASSUME NEW s \in Sessions, NEW ms \in Seq(Message)
  PROVE  /\ Say(s, ms) \in Sessions
         /\ Grown(s, Say(s, ms))
         /\ \A i \in 1 .. Len(ms) : ms[i] \in Elems(Say(s, ms))
<1> DEFINE t == Say(s, ms)
<1>1. /\ s.version \in Nat /\ s.messages \in Seq(Message) /\ Len(s.messages) \in Nat
      /\ DOMAIN s.messages = 1 .. Len(s.messages)
  BY SessionFields
<1>2. Len(ms) \in Nat
  BY LenProperties
<1>3. /\ t.messages = s.messages \o ms /\ t.version = s.version + Len(ms)
  BY DEF Say
<1>4. /\ t.messages \in Seq(Message)
      /\ Len(t.messages) = Len(s.messages) + Len(ms)
      /\ \A i \in 1 .. Len(s.messages) + Len(ms) :
           t.messages[i] = IF i <= Len(s.messages) THEN s.messages[i]
                           ELSE ms[i - Len(s.messages)]
  BY <1>1, <1>3, ConcatProperties
<1>5. t \in Sessions
  <2>1. s.version + Len(ms) \in Nat
    BY <1>1, <1>2
  <2> QED
    BY <1>3, <1>4, <2>1 DEF Say, Sessions, Message
<1>6. Grown(s, t)
  BY <1>1, <1>2, <1>3, <1>4 DEF Grown
<1>7. ASSUME NEW i \in 1 .. Len(ms) PROVE ms[i] \in Elems(t)
  <2> DEFINE l == Len(s.messages)
             j == l + i
  <2>1. j \in 1 .. l + Len(ms) /\ ~ j <= l /\ j - l = i
    BY <1>1, <1>2
  <2> HIDE DEF j, t
  <2>2. t.messages[j] = ms[i]
    BY <1>4, <2>1
  <2>3. DOMAIN t.messages = 1 .. Len(t.messages)
    BY <1>4, LenProperties
  <2>4. j \in DOMAIN t.messages
    BY <1>4, <2>1, <2>3
  <2> QED
    BY <2>2, <2>4 DEF Elems
<1> QED
  BY <1>5, <1>6, <1>7

LEMMA DeliveredTypes ==
  ASSUME NEW s \in Sessions
  PROVE  Delivered(s) \in Seq(Message)
<1>1. s.messages \in Seq(Message) /\ Len(s.messages) \in 0 .. Len(s.messages)
  BY SessionFields
<1> QED
  BY <1>1, DeliveredInputs, InputsTypes

(* What is said delivers the inputs that are in it.                         *)
LEMMA SayDelivers ==
  ASSUME NEW s \in Sessions, NEW ms \in Seq(Message)
  PROVE  /\ (\A i \in 1 .. Len(ms) : IsInput(ms[i])) =>
              Delivered(Say(s, ms)) = Delivered(s) \o ms
         /\ (\A i \in 1 .. Len(ms) : ~ IsInput(ms[i])) =>
              Delivered(Say(s, ms)) = Delivered(s)
<1> DEFINE t == Say(s, ms)
<1>1. s.messages \in Seq(Message) /\ t.messages = s.messages \o ms
  BY SessionFields DEF Say
<1>2. /\ Delivered(s) = Inputs(s.messages, Len(s.messages))
      /\ Delivered(t) = Inputs(t.messages, Len(t.messages))
  BY DeliveredInputs
<1> HIDE DEF t
<1>3. ASSUME \A i \in 1 .. Len(ms) : IsInput(ms[i])
      PROVE  Delivered(t) = Delivered(s) \o ms
  BY <1>1, <1>2, <1>3, InputsAreDelivered
<1>4. ASSUME \A i \in 1 .. Len(ms) : ~ IsInput(ms[i])
      PROVE  Delivered(t) = Delivered(s)
  BY <1>1, <1>2, <1>4, OthersDeliverNothing
<1> QED
  BY <1>3, <1>4 DEF t

LEMMA EntryFields ==
  ASSUME NEW a \in Attempt
  PROVE  /\ a.entry.cursor \in Nat /\ a.consumed \in Nat
         /\ a.entry.inbox \in Seq(Entries) /\ Len(a.entry.inbox) \in Nat
         /\ a.session \in Sessions /\ a.entry.session \in Sessions
         /\ a.entry.at \in 0 .. Size /\ a.entry.continued \in BOOLEAN
         /\ a.pos \in 1 .. Size + 1 /\ a.resumeFrom \in 0 .. Size
         /\ a.iterations \in Nat
BY DEF Attempt, RunsWith

(* The rest of the slice: the inputs after those that were taken.           *)
LEMMA RestTypes ==
  ASSUME NEW a \in Attempt
  PROVE  LET from == a.entry.cursor + a.consumed IN
         /\ Rest(a) \in Seq(Entries)
         /\ Len(Rest(a)) = IF from < Len(a.entry.inbox)
                           THEN Len(a.entry.inbox) - from ELSE 0
         /\ \A i \in 1 .. Len(Rest(a)) : Rest(a)[i] = a.entry.inbox[from + i]
<1> DEFINE inbox == a.entry.inbox
           from  == a.entry.cursor + a.consumed
<1>1. from \in Nat /\ Len(inbox) \in Nat /\ inbox \in Seq(Entries)
  BY EntryFields
<1>2. \A i \in from + 1 .. Len(inbox) : inbox[i] \in Entries
  BY <1>1
<1>3. Rest(a) = SubSeq(inbox, from + 1, Len(inbox))
  BY DEF Rest
<1> HIDE DEF inbox, from
<1>4. from + 1 \in Int /\ Len(inbox) \in Int
  BY <1>1
<1>5. /\ Rest(a) \in Seq(Entries)
      /\ Len(Rest(a)) = IF from + 1 <= Len(inbox) THEN Len(inbox) - (from + 1) + 1 ELSE 0
      /\ \A i \in 1 .. Len(inbox) - (from + 1) + 1 : Rest(a)[i] = inbox[from + 1 + i - 1]
  BY <1>2, <1>3, <1>4, SubSeqProperties
<1>6. /\ Len(Rest(a)) = IF from < Len(inbox) THEN Len(inbox) - from ELSE 0
      /\ \A i \in 1 .. Len(Rest(a)) : Rest(a)[i] = inbox[from + i]
  BY <1>1, <1>5
<1> QED
  BY <1>5, <1>6 DEF inbox, from

LEMMA TakenTypes ==
  ASSUME NEW a \in Attempt, NEW count \in 0 .. Len(Rest(a))
  PROVE  LET taken == Ids(SubSeq(Rest(a), 1, count)) IN
         /\ taken \in Seq(Message) /\ Len(taken) = count
         /\ \A i \in 1 .. count :
              taken[i] = a.entry.inbox[a.entry.cursor + a.consumed + i].id
<1> DEFINE rest  == Rest(a)
           part  == SubSeq(rest, 1, count)
           taken == Ids(part)
           from  == a.entry.cursor + a.consumed
<1>1. rest \in Seq(Entries) /\ Len(rest) \in Nat /\ count \in Nat /\ count <= Len(rest)
  BY RestTypes, LenProperties
<1>2. \A i \in 1 .. Len(rest) : rest[i] = a.entry.inbox[from + i]
  BY RestTypes
<1> HIDE DEF rest, from
<1>3. \A i \in 1 .. count : rest[i] \in Entries
  BY <1>1
<1>4. /\ part \in Seq(Entries) /\ Len(part) = count
      /\ \A i \in 1 .. count : part[i] = rest[i]
  <2>1. /\ part \in Seq(Entries)
        /\ Len(part) = IF 1 <= count THEN count - 1 + 1 ELSE 0
        /\ \A i \in 1 .. count - 1 + 1 : part[i] = rest[1 + i - 1]
    BY <1>1, <1>3, SubSeqProperties
  <2> QED
    BY <1>1, <2>1
<1> HIDE DEF part
<1>5. DOMAIN part = 1 .. count
  BY <1>4, LenProperties
<1>6. taken = [i \in 1 .. count |-> part[i].id]
  BY <1>5 DEF Ids
<1>7. ASSUME NEW i \in 1 .. count PROVE part[i].id \in Message
  <2>1. part[i] \in Entries
    BY <1>3, <1>4
  <2> QED
    BY <2>1 DEF Entries, Message
<1>8. taken \in [1 .. count -> Message]
  BY <1>6, <1>7
<1>9. taken \in Seq(Message) /\ Len(taken) = count
  BY <1>1, <1>8
<1>10. \A i \in 1 .. count : taken[i] = a.entry.inbox[from + i].id
  BY <1>1, <1>2, <1>4, <1>6
<1> QED
  BY <1>9, <1>10 DEF part, rest, from

(* No input taken is none delivered.                                        *)
LEMMA NothingTaken ==
  ASSUME NEW a \in Attempt
  PROVE  Delivered(a.session) =
           Delivered(a.session) \o Ids(SubSeq(a.entry.inbox, a.entry.cursor + a.consumed + 1,
                                              a.entry.cursor + a.consumed))
<1> DEFINE from == a.entry.cursor + a.consumed
           none == Ids(SubSeq(a.entry.inbox, from + 1, from))
<1>1. from \in Nat /\ a.entry.inbox \in Seq(Entries) /\ Delivered(a.session) \in Seq(Message)
  BY EntryFields, DeliveredTypes
<1> HIDE DEF from
<1>2. from <= from /\ ~ from < from /\ from - from = 0
  BY <1>1
<1>3. none \in Seq(Message) /\ Len(none) = from - from
  BY <1>1, <1>2, SliceTypes
<1>4. none = << >>
  BY <1>2, <1>3, EmptySeq
<1>5. Delivered(a.session) \o << >> = Delivered(a.session)
  BY <1>1, ConcatEmptySeq
<1> QED
  BY <1>4, <1>5 DEF from

(* consumeInbox takes inputs of the slice, and each becomes a message.      *)
LEMMA ConsumeTypes ==
  ASSUME NEW a \in Attempt, NEW count \in 0 .. Len(Rest(a))
  PROVE  /\ Consume(a, count) \in Attempt
         /\ Continues(a, Consume(a, count))
         /\ Consume(a, count).pos = a.pos
         /\ Consume(a, count).resumeFrom = a.resumeFrom
<1> DEFINE taken == Ids(SubSeq(Rest(a), 1, count))
           b     == Consume(a, count)
           from  == a.entry.cursor + a.consumed
<1>1. /\ taken \in Seq(Message) /\ Len(taken) = count
      /\ \A i \in 1 .. count : taken[i] = a.entry.inbox[from + i].id
  BY TakenTypes
<1>2. /\ a.session \in Sessions /\ a.consumed \in Nat /\ a.entry.cursor \in Nat
      /\ Len(a.entry.inbox) \in Nat
  BY EntryFields
<1>3. b = [a EXCEPT !.consumed = @ + count, !.session = Say(@, taken)]
  BY DEF Consume
<1> HIDE DEF taken, b
<1>4. /\ Say(a.session, taken) \in Sessions
      /\ Grown(a.session, Say(a.session, taken))
      /\ \A i \in 1 .. count : taken[i] \in Elems(Say(a.session, taken))
  BY <1>1, <1>2, SayTypes
<1>5. Len(Rest(a)) \in Nat /\ count \in Nat
  BY RestTypes, LenProperties
<1>6. a.consumed + count \in Nat
  BY <1>2, <1>5
<1>7. /\ b \in Attempt
      /\ b.entry = a.entry /\ b.pos = a.pos /\ b.resumeFrom = a.resumeFrom
      /\ b.consumed = a.consumed + count /\ b.session = Say(a.session, taken)
  BY <1>3, <1>4, <1>6 DEF Attempt
<1>8. count > 0 => from + count <= Len(a.entry.inbox)
  BY <1>2, <1>5, RestTypes
<1>9. ASSUME NEW i \in from + 1 .. a.entry.cursor + b.consumed
      PROVE  a.entry.inbox[i].id \in Elems(b.session)
  <2>1. i - from \in 1 .. count /\ from + (i - from) = i
    BY <1>2, <1>5, <1>7
  <2>2. taken[i - from] = a.entry.inbox[i].id
    BY <1>1, <2>1
  <2> QED
    BY <1>4, <1>7, <2>1, <2>2
<1>10. Delivered(b.session) =
         Delivered(a.session) \o Ids(SubSeq(a.entry.inbox, from + 1,
                                            a.entry.cursor + b.consumed))
  <2> DEFINE upto  == a.entry.cursor + b.consumed
             slice == Ids(SubSeq(a.entry.inbox, from + 1, upto))
  <2>1. /\ from \in Nat /\ upto \in Nat /\ from <= upto /\ upto - from = count
        /\ (from < upto => upto <= Len(a.entry.inbox))
        /\ a.entry.inbox \in Seq(Entries)
    <3>1. upto = from + count /\ (count > 0 => upto <= Len(a.entry.inbox))
      BY <1>2, <1>5, <1>7, <1>8
    <3> QED
      BY <1>2, <1>5, <3>1, EntryFields
  <2> HIDE DEF from, upto
  <2>2. /\ slice \in Seq(Message) /\ Len(slice) = upto - from
        /\ \A i \in 1 .. upto - from : slice[i] = a.entry.inbox[from + i].id /\ IsInput(slice[i])
    BY <2>1, SliceTypes
  <2>3. \A i \in 1 .. count : slice[i] = taken[i]
    BY <1>1, <2>1, <2>2 DEF from
  <2> HIDE DEF slice
  <2>4. slice = taken
    BY <1>1, <2>1, <2>2, <2>3, SeqEqual
  <2>5. \A i \in 1 .. Len(taken) : IsInput(taken[i])
    BY <1>1, <2>1, <2>2, <2>4
  <2>6. Delivered(Say(a.session, taken)) = Delivered(a.session) \o taken
    BY <1>1, <1>2, <2>5, SayDelivers
  <2> QED
    BY <1>7, <2>4, <2>6 DEF slice, upto, from
<1>11. Continues(a, b)
  BY <1>2, <1>4, <1>5, <1>7, <1>8, <1>9, <1>10 DEF Continues
<1> QED
  BY <1>7, <1>11 DEF b

LEMMA SaidTypes ==
  ASSUME NEW a \in Attempt, NEW ms \in Seq(Message),
         \A i \in 1 .. Len(ms) : ~ IsInput(ms[i])
  PROVE  /\ [a EXCEPT !.session = Say(@, ms)] \in Attempt
         /\ Continues(a, [a EXCEPT !.session = Say(@, ms)])
         /\ [a EXCEPT !.session = Say(@, ms)].pos = a.pos
<1>1. Say(a.session, ms) \in Sessions /\ Grown(a.session, Say(a.session, ms))
  BY EntryFields, SayTypes
<1>2. a.consumed \in Nat /\ a.entry.cursor \in Nat
  BY EntryFields
<1> DEFINE b == [a EXCEPT !.session = Say(@, ms)]
<1>3. /\ b \in Attempt
      /\ b.entry = a.entry /\ b.consumed = a.consumed /\ b.pos = a.pos
      /\ b.session = Say(a.session, ms)
  BY <1>1 DEF Attempt
<1> HIDE DEF b
<1>4. Continues(a, b)
  <2>1. Delivered(b.session) = Delivered(a.session)
    BY <1>3, EntryFields, SayDelivers
  <2>2. Delivered(b.session) =
          Delivered(a.session) \o Ids(SubSeq(a.entry.inbox, a.entry.cursor + a.consumed + 1,
                                             a.entry.cursor + b.consumed))
    BY <1>3, <2>1, NothingTaken
  <2> QED
    BY <1>1, <1>2, <1>3, <2>2 DEF Continues
<1> QED
  BY <1>3, <1>4 DEF b

LEMMA KeyTypes == ASSUME NEW s \in Sessions PROVE LastInput(s) \in Message
<1> DEFINE d == Delivered(s)
<1>1. d \in Seq(Message)
  BY DeliveredTypes
<1>2. d # << >> => Len(d) \in 1 .. Len(d)
  BY <1>1, EmptySeq, LenProperties
<1> HIDE DEF d
<1>3. d # << >> => Last(d) \in Message
  BY <1>1, <1>2, ElementOfSeq DEF Last
<1> QED
  BY <1>3, Messages DEF LastInput, d

LEMMA StoredFields ==
  ASSUME NEW r \in Stored
  PROVE  /\ r.status \in {"absent", "open", "done"} /\ r.session \in Sessions
         /\ r.continued \in BOOLEAN /\ r.cursor \in Nat /\ r.at \in 0 .. Size
         /\ r.inbox \in Seq(Entries) /\ Len(r.inbox) \in Nat
         /\ DOMAIN r.inbox = 1 .. Len(r.inbox)
         /\ r.timers \in [DOMAIN setup.nodes -> TimerStates]
         /\ r.once \subseteq Message
<1>1. r.inbox \in Seq(Entries)
  BY DEF Stored, RunsWith
<1> QED
  BY <1>1, LenProperties DEF Stored, RunsWith

LEMMA EmptyTypes ==
  /\ EmptySession \in Sessions /\ EmptySession.messages = << >>
  /\ EmptySession.version = 0 /\ Len(EmptySession.messages) = 0
<1>1. << >> \in Seq(0 .. MaxInputs) /\ Len(<< >>) = 0
  BY EmptySeq
<1> QED
  BY <1>1 DEF EmptySession, Sessions

LEMMA NewTypes ==
  ASSUME setup \in Setups, NEW status \in {"absent", "open"}
  PROVE  LET new == NewRun(status, NoTimers(setup)) IN
         /\ new \in Stored /\ new.status = status
         /\ new.session = EmptySession /\ new.cursor = 0 /\ new.inbox = << >>
         /\ new.once = {} /\ Len(new.inbox) = 0
         /\ \A n \in DOMAIN setup.nodes : new.timers[n] = "none"
<1>1. << >> \in Seq(Entries) /\ Len(<< >>) = 0
  BY EmptySeq
<1>2. NoTimers(setup) \in [DOMAIN setup.nodes -> TimerStates]
  BY DEF NoTimers, TimerStates
<1> QED
  BY <1>1, <1>2, SetupFields, EmptyTypes DEF NewRun, Stored, RunsWith, NoTimers

LEMMA WithEntryTypes ==
  ASSUME NEW r \in Stored, NEW e \in Entries
  PROVE  /\ WithEntry(r, e) \in Stored
         /\ WithEntry(r, e).inbox \in {r.inbox, Append(r.inbox, e)}
         /\ WithEntry(r, e).status = r.status /\ WithEntry(r, e).session = r.session
         /\ WithEntry(r, e).cursor = r.cursor
         /\ WithEntry(r, e).timers = r.timers /\ WithEntry(r, e).once = r.once
         /\ [r EXCEPT !.inbox = Append(@, e)] \in Stored
<1>1. Append(r.inbox, e) \in Seq(Entries)
  BY StoredFields
<1>2. [r EXCEPT !.inbox = Append(@, e)] \in Stored
  BY <1>1 DEF Stored, RunsWith
<1> QED
  BY <1>2 DEF WithEntry, Stored, RunsWith

(* store.appendSessionDelta adds to the session, or leaves it alone.        *)
LEMMA WithDeltaTypes ==
  ASSUME NEW r \in Stored, NEW s \in Sessions, NEW b \in Baselines
  PROVE  LET new  == WithDelta(r, s, b)
             more == SubSeq(s.messages, b.count + 1, Len(s.messages))
         IN
         /\ new \in Stored /\ more \in Seq(Message)
         /\ Len(more) = IF b.count < Len(s.messages) THEN Len(s.messages) - b.count ELSE 0
         /\ \A i \in 1 .. Len(more) : more[i] = s.messages[b.count + i]
         /\ r.session.version >= s.version => new = r
         /\ r.session.version < s.version =>
              /\ new.session.messages = r.session.messages \o more
              /\ new.session.version = s.version
         /\ new.status = r.status /\ new.inbox = r.inbox /\ new.cursor = r.cursor
         /\ new.timers = r.timers /\ new.once = r.once
<1> DEFINE more == SubSeq(s.messages, b.count + 1, Len(s.messages))
           new  == WithDelta(r, s, b)
<1>1. /\ s.version \in Nat /\ s.messages \in Seq(Message) /\ Len(s.messages) \in Nat
      /\ b.count \in Nat /\ r.session \in Sessions
      /\ r.session.messages \in Seq(Message) /\ r.session.version \in Nat
  BY SessionFields, StoredFields DEF Baselines
<1>2. \A i \in b.count + 1 .. Len(s.messages) : s.messages[i] \in Message
  BY <1>1
<1>3. /\ more \in Seq(Message)
      /\ Len(more) = IF b.count + 1 <= Len(s.messages)
                     THEN Len(s.messages) - (b.count + 1) + 1 ELSE 0
      /\ \A i \in 1 .. Len(s.messages) - (b.count + 1) + 1 :
           more[i] = s.messages[b.count + 1 + i - 1]
  <2>1. b.count + 1 \in Int /\ Len(s.messages) \in Int
    BY <1>1
  <2> QED
    BY <1>2, <2>1, SubSeqProperties
<1> HIDE DEF more
<1>4. /\ Len(more) = IF b.count < Len(s.messages) THEN Len(s.messages) - b.count ELSE 0
      /\ \A i \in 1 .. Len(more) : more[i] = s.messages[b.count + i]
  <2> DEFINE c == b.count
             n == Len(s.messages)
  <2>1. c \in Nat /\ n \in Nat
    BY <1>1
  <2>2. /\ Len(more) = IF c + 1 <= n THEN n - (c + 1) + 1 ELSE 0
        /\ \A i \in 1 .. n - (c + 1) + 1 : more[i] = s.messages[c + 1 + i - 1]
    BY <1>3
  <2> HIDE DEF c, n
  <2>3. Len(more) = IF c < n THEN n - c ELSE 0
    BY <2>1, <2>2
  <2>4. ASSUME NEW i \in 1 .. Len(more) PROVE more[i] = s.messages[c + i]
    <3>1. i \in 1 .. n - (c + 1) + 1 /\ c + 1 + i - 1 = c + i
      BY <2>1, <2>3
    <3> QED
      BY <2>2, <3>1
  <2> QED
    BY <2>3, <2>4 DEF c, n
<1> DEFINE longer == [version |-> s.version, messages |-> r.session.messages \o more]
<1>5. longer \in Sessions
  <2>1. r.session.messages \o more \in Seq(Message)
    BY <1>1, <1>3, ConcatProperties
  <2> QED
    BY <1>1, <2>1 DEF Sessions, Message
<1>6. new = IF r.session.version >= s.version THEN r
            ELSE [r EXCEPT !.session = longer, !.continued = TRUE]
  BY DEF WithDelta, more
<1> HIDE DEF new
<1>7. /\ new \in Stored
      /\ new.status = r.status /\ new.inbox = r.inbox /\ new.cursor = r.cursor
      /\ new.timers = r.timers /\ new.once = r.once
      /\ r.session.version < s.version => new.session = longer
  <2> HIDE DEF longer
  <2>1. r.session.version < s.version => ~ r.session.version >= s.version
    BY <1>1
  <2> QED
    BY <1>5, <1>6, <2>1 DEF Stored, RunsWith
<1>8. r.session.version >= s.version => new = r
  BY <1>6
<1>9. longer.messages = r.session.messages \o more /\ longer.version = s.version
  OBVIOUS
<1> HIDE DEF longer
<1>10. r.session.version < s.version =>
         /\ new.session.messages = r.session.messages \o more
         /\ new.session.version = s.version
  BY <1>7, <1>9
<1> QED
  BY <1>3, <1>4, <1>7, <1>8, <1>10 DEF new, more

LEMMA WithPatchTypes ==
  ASSUME NEW r \in Stored, NEW q \in Stored
  PROVE  LET new == WithPatch(r, q) IN
         /\ new \in Stored
         /\ new.status = q.status /\ new.cursor = q.cursor
         /\ new.session = r.session /\ new.inbox = r.inbox
         /\ new.timers = r.timers /\ new.once = r.once
BY StoredFields DEF WithPatch, Stored, RunsWith

LEMMA WithTimerTypes ==
  ASSUME NEW r \in Stored, NEW n \in DOMAIN setup.nodes, NEW state \in TimerStates
  PROVE  LET new == WithTimer(r, n, state) IN
         /\ new \in Stored
         /\ new.status = r.status /\ new.cursor = r.cursor
         /\ new.session = r.session /\ new.inbox = r.inbox /\ new.once = r.once
         /\ \A m \in DOMAIN setup.nodes :
              new.timers[m] = IF m = n THEN state ELSE r.timers[m]
<1>1. r.timers \in [DOMAIN setup.nodes -> TimerStates]
  BY StoredFields
<1>2. [r.timers EXCEPT ![n] = state] \in [DOMAIN setup.nodes -> TimerStates]
  BY <1>1
<1>3. WithTimer(r, n, state) = [r EXCEPT !.timers = [r.timers EXCEPT ![n] = state]]
  BY DEF WithTimer, Stored, RunsWith
<1> QED
  BY <1>1, <1>2, <1>3 DEF Stored, RunsWith

LEMMA WithMemoTypes ==
  ASSUME NEW r \in Stored, NEW key \in Message
  PROVE  LET new == WithMemo(r, key) IN
         /\ new \in Stored
         /\ new.status = r.status /\ new.cursor = r.cursor
         /\ new.session = r.session /\ new.inbox = r.inbox
         /\ new.timers = r.timers /\ new.once = r.once \cup {key}
<1>1. r.once \cup {key} \subseteq Message
  BY StoredFields
<1> QED
  BY <1>1 DEF WithMemo, Stored, RunsWith

LEMMA RolledBackTypes ==
  ASSUME NEW r \in Stored, NEW a \in Attempt
  PROVE  LET new == RolledBack(r, a.entry) IN
         /\ new \in Stored
         /\ new.status = r.status /\ new.cursor = a.entry.cursor
         /\ new.session = a.entry.session /\ new.inbox = r.inbox
         /\ new.timers = r.timers /\ new.once = r.once
BY EntryFields DEF RolledBack, Stored, RunsWith

(* An attempt begins with the run it was handed.                            *)
LEMMA BeginTypes ==
  ASSUME setup \in Setups, NEW r \in Stored
  PROVE  /\ Begin(r) \in Attempt
         /\ Begin(r).entry = r /\ Begin(r).session = r.session
         /\ Begin(r).consumed = 0 /\ Begin(r).pos = 1
<1>1. SkipNodes(r) \subseteq Nat
  <2>1. \A x : 1 .. x \subseteq Nat
    OBVIOUS
  <2> QED
    BY <2>1 DEF SkipNodes
<1>2. r \in RunsWith([DOMAIN setup.nodes -> TimerStates] \cup {<< >>})
  BY DEF Stored, RunsWith
<1>3. 1 \in 1 .. Size + 1 /\ r.at \in 0 .. Size /\ r.session \in Sessions
  BY SetupFields, StoredFields
<1> QED
  BY <1>1, <1>2, <1>3 DEF Begin, Attempt

LEMMA NoAttemptTypes == ASSUME setup \in Setups PROVE NoAttempt \in Attempt
<1>1. NewRun("absent", << >>) \in RunsWith([DOMAIN setup.nodes -> TimerStates] \cup {<< >>})
  <2>1. << >> \in Seq(Entries)
    BY EmptySeq
  <2>2. 0 \in 0 .. Size
    BY SetupFields
  <2> QED
    BY <2>1, <2>2, EmptyTypes DEF NewRun, RunsWith
<1>2. 1 \in 1 .. Size + 1 /\ 0 \in 0 .. Size
  BY SetupFields
<1> QED
  BY <1>1, <1>2, EmptyTypes DEF NoAttempt, Attempt

-----------------------------------------------------------------------------
(* What a step of an execution does: it goes on, or leaves the attempt for  *)
(* the run object to be persisted.                                          *)

Advances ==
  /\ attempt' \in Attempt /\ Continues(attempt, attempt')
  /\ pc' \in {"node", "loop", "end"}
  /\ pc' # "end" => attempt'.pos <= Size

(* The run object is now r with the outcome of the attempt, or with what it *)
(* was before.                                                              *)
Leaves(r) ==
  /\ pc' = "delta" /\ attempt' = attempt
  /\ run' \in Stored
  /\ run'.inbox = r.inbox /\ run'.timers = r.timers /\ run'.once = r.once
  /\ Exists(r) => Exists(run')
  /\ \/ /\ after' = "rollback"
        /\ run'.session = attempt.entry.session
        /\ run'.cursor = attempt.entry.cursor
     \/ /\ after' \in {"done", "suspended"}
        /\ run'.session = attempt.session
        /\ run'.cursor = attempt.entry.cursor + attempt.consumed

Quiet ==
  /\ pc \in {"node", "loop", "end"} /\ Advances
  /\ UNCHANGED << db, run, after, failures, errors, calls >>

Settles ==
  /\ pc \in {"node", "loop", "end"} /\ Leaves(run)
  /\ errors' \in 0 .. MaxErrors
  /\ UNCHANGED << db, failures, calls >>

Arms ==
  /\ pc = "node" /\ run.timers[attempt.pos] = "none"
  /\ attempt.pos \in DOMAIN setup.nodes
  /\ LET new == WithTimer(db, attempt.pos, "pending") IN
       Saved(new) \/ Unsaved(new)
  /\ Leaves(WithTimer(run, attempt.pos, "pending"))
  /\ UNCHANGED << errors, calls >>

Acts ==
  /\ pc = "node" /\ pc' = "memo"
  /\ LET key == LastInput(attempt.session) IN
       /\ key \notin run.once
       /\ calls' = [calls EXCEPT ![key] = @ + 1]
       /\ run' = WithMemo(run, key)
  /\ UNCHANGED << db, after, attempt, failures, errors >>

Remembers ==
  /\ pc = "memo"
  /\ LET new == WithMemo(db, LastInput(attempt.session)) IN
       \/ Saved(new) /\ Advances /\ UNCHANGED << run, after >>
       \/ Unsaved(new) /\ Leaves(run)
  /\ UNCHANGED << errors, calls >>

Executes ==
  /\ Quiet \/ Settles \/ Arms \/ Acts \/ Remembers
  /\ UNCHANGED << setup, baseline, up, sent, crashes >>

LEMMA Continued ==
  ASSUME NEW a \in Attempt, NEW b \in Attempt, Continues(a, b), NEW c \in Attempt,
         c.entry = b.entry, c.consumed = b.consumed, c.session = b.session
  PROVE  Continues(a, c)
BY DEF Continues

LEMMA ContinuesItself ==
  ASSUME NEW a \in Attempt
  PROVE  Continues(a, a)
BY EntryFields, SessionFields, NothingTaken DEF Continues

LEMMA GoToAdvances ==
  ASSUME setup \in Setups, attempt \in Attempt,
         NEW a \in Attempt, Continues(attempt, a), NEW n \in 1 .. Size + 1, GoTo(a, n)
  PROVE  Advances
<1>1. attempt' = [a EXCEPT !.pos = n] /\ pc' = Coming(n)
  BY DEF GoTo
<1>2. /\ attempt' \in Attempt /\ attempt'.pos = n /\ attempt'.entry = a.entry
      /\ attempt'.consumed = a.consumed /\ attempt'.session = a.session
  BY <1>1 DEF Attempt
<1>3. Continues(attempt, attempt')
  BY <1>2, Continued
<1> QED
  BY <1>1, <1>2, <1>3, ComingNodes DEF Advances

LEMMA GoOnAdvances ==
  ASSUME setup \in Setups, attempt \in Attempt,
         NEW a \in Attempt, Continues(attempt, a), a.pos <= Size, GoOn(a)
  PROVE  Advances
<1>1. a.pos \in 1 .. Size
  BY EntryFields, SetupFields
<1>2. Following(a.pos) \in 1 .. Size + 1
  BY <1>1, FollowingNodes
<1> QED
  BY <1>2, GoToAdvances DEF GoOn

LEMMA SuspendLeaves ==
  ASSUME setup \in Setups, attempt \in Attempt, attempt.pos <= Size,
         NEW r \in Stored, Suspend(r)
  PROVE  Leaves(r)
<1>1. attempt.entry.cursor + attempt.consumed \in Nat /\ attempt.pos \in 0 .. Size
  BY EntryFields, SetupFields
<1>2. attempt.session \in Sessions
  BY EntryFields
<1>3. run' = [r EXCEPT !.session = attempt.session, !.continued = TRUE,
                       !.cursor = attempt.entry.cursor + attempt.consumed,
                       !.at = attempt.pos]
  BY DEF Suspend
<1>4. /\ run' \in Stored
      /\ run'.inbox = r.inbox /\ run'.timers = r.timers /\ run'.once = r.once
      /\ run'.status = r.status /\ run'.session = attempt.session
      /\ run'.cursor = attempt.entry.cursor + attempt.consumed
  BY <1>1, <1>2, <1>3 DEF Stored, RunsWith
<1> QED
  BY <1>4 DEF Suspend, Leaves, Exists

LEMMA AbandonLeaves ==
  ASSUME attempt \in Attempt, NEW r \in Stored, Abandon(r)
  PROVE  Leaves(r)
BY RolledBackTypes DEF Abandon, Leaves, Exists

LEMMA ExecuteShape ==
  ASSUME Types, Phases, ExecuteNode
  PROVE  Executes
<1>1. /\ setup \in Setups /\ attempt \in Attempt /\ run \in Stored
      /\ DOMAIN setup.nodes = 1 .. Size /\ errors \in 0 .. MaxErrors
      /\ attempt.pos \in 1 .. Size + 1 /\ Size \in Nat
  BY SetupFields, EntryFields DEF Types
<1>2. pc \in {"node", "memo", "loop"} => attempt.pos <= Size
  BY DEF Phases
<1>3. CASE MaterializeInbox
  <2>1. Len(Rest(attempt)) \in 0 .. Len(Rest(attempt))
    BY <1>1, RestTypes, LenProperties
  <2>2. /\ attempt' \in Attempt /\ Continues(attempt, attempt')
        /\ attempt'.pos = attempt.pos
    BY <1>1, <1>3, <2>1, ConsumeTypes DEF MaterializeInbox
  <2> QED
    BY <1>2, <1>3, <2>2 DEF MaterializeInbox, Executes, Quiet, Advances, faults
<1>4. CASE SkipNode
  <2> DEFINE a == [attempt EXCEPT !.skip = @ \ {attempt.pos}]
  <2>1. /\ a \in Attempt /\ a.entry = attempt.entry /\ a.consumed = attempt.consumed
        /\ a.session = attempt.session /\ a.pos = attempt.pos
    BY <1>1 DEF Attempt
  <2>2. Continues(attempt, a)
    BY <1>1, <2>1, ContinuesItself, Continued
  <2>3. GoOn(a) /\ pc = "node"
    BY <1>4 DEF SkipNode
  <2> HIDE DEF a
  <2>4. Advances
    BY <1>1, <1>2, <2>1, <2>2, <2>3, GoOnAdvances
  <2> QED
    BY <1>4, <2>4 DEF SkipNode, Executes, Quiet, faults
<1>5. CASE SystemNode
  <2> DEFINE a == [attempt EXCEPT !.session = Say(@, << Other >>)]
  <2>1. /\ << Other >> \in Seq(Message)
        /\ \A i \in 1 .. Len(<< Other >>) : ~ IsInput(<< Other >>[i])
    BY Messages DEF IsInput
  <2>2. a \in Attempt /\ Continues(attempt, a) /\ a.pos = attempt.pos
    BY <1>1, <2>1, SaidTypes
  <2>3. GoOn(a) /\ pc = "node"
    BY <1>5 DEF SystemNode, AtNode
  <2> HIDE DEF a
  <2>4. Advances
    BY <1>1, <1>2, <2>2, <2>3, GoOnAdvances
  <2> QED
    BY <1>5, <2>4 DEF SystemNode, AtNode, Executes, Quiet, faults
<1>6. CASE InboxNode
  <2> DEFINE count == IF Rest(attempt) = << >> THEN 0 ELSE 1
             a == Consume(attempt, count)
  <2>1. count \in 0 .. Len(Rest(attempt))
    BY <1>1, RestTypes, EmptySeq, LenProperties
  <2> HIDE DEF count
  <2>2. a \in Attempt /\ Continues(attempt, a) /\ a.pos = attempt.pos
    BY <1>1, <2>1, ConsumeTypes
  <2>3. GoOn(a) /\ pc = "node"
    BY <1>6 DEF InboxNode, AtNode, count
  <2> HIDE DEF a
  <2>4. Advances
    BY <1>1, <1>2, <2>2, <2>3, GoOnAdvances
  <2> QED
    BY <1>6, <2>4 DEF InboxNode, AtNode, Executes, Quiet, faults
<1>7. CASE AwaitNode
  <2>1. CASE Rest(attempt) = << >>
    <3>1. Suspend(run) /\ pc = "node" /\ UNCHANGED errors
      BY <1>7, <2>1 DEF AwaitNode, AtNode, faults
    <3>2. Leaves(run)
      BY <1>1, <1>2, <3>1, SuspendLeaves
    <3> QED
      BY <1>1, <1>7, <3>1, <3>2 DEF AwaitNode, Executes, Settles, faults
  <2>2. CASE Rest(attempt) # << >>
    <3> DEFINE b == Consume(attempt, 1)
               a == [b EXCEPT !.resumeFrom = IF @ = attempt.pos THEN 0 ELSE @]
    <3>1. 1 \in 0 .. Len(Rest(attempt))
      BY <1>1, <2>2, RestTypes, EmptySeq, LenProperties
    <3>2. b \in Attempt /\ Continues(attempt, b) /\ b.pos = attempt.pos
      BY <1>1, <3>1, ConsumeTypes
    <3> HIDE DEF b
    <3>3. (IF b.resumeFrom = attempt.pos THEN 0 ELSE b.resumeFrom) \in 0 .. Size
      BY <1>1, <3>2, EntryFields
    <3>4. /\ a \in Attempt /\ a.pos = b.pos /\ a.entry = b.entry
          /\ a.consumed = b.consumed /\ a.session = b.session
      BY <3>2, <3>3 DEF Attempt
    <3>5. Continues(attempt, a)
      BY <1>1, <3>2, <3>4, Continued
    <3>6. GoOn(a) /\ pc = "node" /\ UNCHANGED << run, after >>
      BY <1>7, <2>2 DEF AwaitNode, AtNode, b
    <3> HIDE DEF a
    <3>7. Advances
      BY <1>1, <1>2, <3>2, <3>4, <3>5, <3>6, GoOnAdvances
    <3> QED
      BY <1>7, <3>6, <3>7 DEF AwaitNode, Executes, Quiet, faults
  <2> QED
    BY <2>1, <2>2
<1>8. CASE AssistantNode
  <2>1. pc = "node"
    BY <1>8 DEF AssistantNode, AtNode
  <2>2. ASSUME NEW count \in 1 .. MaxReplies,
               GoOn([attempt EXCEPT !.session = Say(@, [i \in 1 .. count |-> Other])])
        PROVE  Advances
    <3> DEFINE a == [attempt EXCEPT !.session = Say(@, [i \in 1 .. count |-> Other])]
    <3> DEFINE ms == [i \in 1 .. count |-> Other]
    <3>1. ms \in Seq(Message) /\ \A i \in 1 .. Len(ms) : ~ IsInput(ms[i])
      <4>1. ms \in [1 .. count -> Message] /\ count \in Nat
        BY Messages
      <4>2. ms \in Seq(Message) /\ Len(ms) = count
        BY <4>1
      <4> QED
        BY <4>2 DEF IsInput
    <3>2. a \in Attempt /\ Continues(attempt, a) /\ a.pos = attempt.pos
      BY <1>1, <3>1, SaidTypes
    <3> HIDE DEF a
    <3>3. GoOn(a)
      BY <2>2 DEF a
    <3> QED
      BY <1>1, <1>2, <2>1, <3>2, <3>3, GoOnAdvances
  <2>3. CASE Advances /\ UNCHANGED << run, after, errors >>
    BY <1>8, <2>1, <2>3 DEF AssistantNode, Executes, Quiet
  <2>4. CASE errors < MaxErrors /\ errors' = errors + 1 /\ Abandon(run)
    <3>1. Leaves(run)
      BY <1>1, <2>4, AbandonLeaves
    <3>2. errors' \in 0 .. MaxErrors
      BY <1>1, <2>4
    <3> QED
      BY <1>8, <2>1, <3>1, <3>2 DEF AssistantNode, Executes, Settles
  <2> QED
    BY <1>8, <2>2, <2>3, <2>4 DEF AssistantNode
<1>9. CASE EffectNode
  <2>1. pc = "node"
    BY <1>9 DEF EffectNode, AtNode
  <2>2. CASE LastInput(attempt.session) \in run.once
    <3>1. GoOn(attempt) /\ UNCHANGED << run, calls >>
      BY <1>9, <2>2 DEF EffectNode
    <3>2. Advances
      BY <1>1, <1>2, <2>1, <3>1, ContinuesItself, GoOnAdvances
    <3> QED
      BY <1>9, <2>1, <3>1, <3>2 DEF EffectNode, Executes, Quiet, faults
  <2>3. CASE LastInput(attempt.session) \notin run.once
    BY <1>9, <2>1, <2>3 DEF EffectNode, Executes, Acts, faults
  <2> QED
    BY <2>2, <2>3
<1>10. CASE RecordMemo
  <2> DEFINE new == WithMemo(db, LastInput(attempt.session))
  <2>1. pc = "memo"
    BY <1>10 DEF RecordMemo
  <2>2. CASE Saved(new) /\ GoOn(attempt) /\ UNCHANGED << run, after >>
    <3>1. Advances
      BY <1>1, <1>2, <2>1, <2>2, ContinuesItself, GoOnAdvances
    <3> QED
      BY <1>10, <2>1, <2>2, <3>1 DEF RecordMemo, Executes, Remembers
  <2>3. CASE Unsaved(new) /\ Abandon(run)
    <3>1. Leaves(run)
      BY <1>1, <2>3, AbandonLeaves
    <3> QED
      BY <1>10, <2>1, <2>3, <3>1 DEF RecordMemo, Executes, Remembers
  <2> QED
    BY <1>10, <2>2, <2>3 DEF RecordMemo
<1>11. CASE SleepNode
  <2>1. pc = "node"
    BY <1>11 DEF SleepNode, AtNode
  <2>2. CASE run.timers[attempt.pos] = "fired"
    <3>1. GoOn(attempt) /\ UNCHANGED << run, after >>
      BY <1>11, <2>2 DEF SleepNode
    <3>2. Advances
      BY <1>1, <1>2, <2>1, <3>1, ContinuesItself, GoOnAdvances
    <3> QED
      BY <1>11, <2>1, <3>1, <3>2 DEF SleepNode, Executes, Quiet, faults
  <2>3. CASE run.timers[attempt.pos] # "fired"
    <3>1. Suspend(run)
      BY <1>11, <2>3 DEF SleepNode
    <3>2. Leaves(run)
      BY <1>1, <1>2, <2>1, <3>1, SuspendLeaves
    <3> QED
      BY <1>1, <1>11, <2>1, <3>2 DEF SleepNode, Executes, Settles, faults
  <2> QED
    BY <2>2, <2>3
<1>12. CASE ArmTimer
  <2> DEFINE new   == WithTimer(db, attempt.pos, "pending")
             armed == WithTimer(run, attempt.pos, "pending")
  <2>1. pc = "node" /\ run.timers[attempt.pos] = "none"
    BY <1>12 DEF ArmTimer, AtNode
  <2>2. attempt.pos \in DOMAIN setup.nodes
    BY <1>1, <1>2, <2>1
  <2>3. armed \in Stored
    BY <1>1, <2>2, WithTimerTypes DEF TimerStates
  <2>4. \/ Saved(new) /\ Suspend(armed)
        \/ Unsaved(new) /\ Abandon(armed)
    BY <1>12 DEF ArmTimer, ReadFails, Unsaved
  <2> HIDE DEF new, armed
  <2>5. Leaves(armed)
    BY <1>1, <1>2, <2>1, <2>3, <2>4, SuspendLeaves, AbandonLeaves
  <2> QED
    BY <1>12, <2>1, <2>2, <2>4, <2>5 DEF ArmTimer, Executes, Arms, new, armed
<1>13. CASE LoopHead
  <2>1. pc = "loop"
    BY <1>13 DEF LoopHead
  <2>2. CASE /\ attempt.iterations < setup.maxIterations
             /\ attempt' = [attempt EXCEPT !.iterations = @ + 1]
             /\ pc' = "node" /\ UNCHANGED << run, after >>
    <3>1. attempt.iterations + 1 \in Nat
      BY <1>1, EntryFields
    <3>2. /\ attempt' \in Attempt /\ attempt'.entry = attempt.entry
          /\ attempt'.pos = attempt.pos
          /\ attempt'.consumed = attempt.consumed
          /\ attempt'.session = attempt.session
      BY <1>1, <2>2, <3>1 DEF Attempt
    <3>3. Continues(attempt, attempt')
      BY <1>1, <3>2, ContinuesItself, Continued
    <3>4. Advances
      BY <1>2, <2>1, <2>2, <3>2, <3>3 DEF Advances
    <3> QED
      BY <1>13, <2>1, <2>2, <3>4 DEF LoopHead, Executes, Quiet, faults
  <2>3. CASE Abandon(run)
    <3>1. Leaves(run)
      BY <1>1, <2>3, AbandonLeaves
    <3> QED
      BY <1>1, <1>13, <2>1, <3>1 DEF LoopHead, Executes, Settles, faults
  <2>4. CASE GoTo(attempt, Size + 1) /\ UNCHANGED << run, after >>
    <3>1. Size + 1 \in 1 .. Size + 1
      BY <1>1
    <3>2. Advances
      BY <1>1, <2>4, <3>1, ContinuesItself, GoToAdvances
    <3> QED
      BY <1>13, <2>1, <2>4, <3>2 DEF LoopHead, Executes, Quiet, faults
  <2> QED
    BY <1>13, <2>2, <2>3, <2>4 DEF LoopHead
<1>14. CASE Complete
  <2>1. attempt.entry.cursor + attempt.consumed \in Nat /\ 0 \in 0 .. Size
    BY <1>1, EntryFields
  <2>2. attempt.session \in Sessions
    BY <1>1, EntryFields
  <2>3. /\ run' = [run EXCEPT !.status = "done", !.session = attempt.session,
                              !.continued = TRUE, !.at = 0,
                              !.cursor = attempt.entry.cursor + attempt.consumed]
        /\ pc = "end" /\ pc' = "delta" /\ after' = "done" /\ attempt' = attempt
    BY <1>14 DEF Complete
  <2>4. /\ run' \in Stored /\ run'.inbox = run.inbox /\ run'.timers = run.timers
        /\ run'.once = run.once /\ run'.status = "done"
        /\ run'.session = attempt.session
        /\ run'.cursor = attempt.entry.cursor + attempt.consumed
    BY <1>1, <2>1, <2>2, <2>3 DEF Stored, RunsWith
  <2>5. Leaves(run)
    BY <2>3, <2>4 DEF Leaves, Exists
  <2> QED
    BY <1>1, <1>14, <2>3, <2>5 DEF Complete, Executes, Settles, faults
<1> QED
  BY <1>3, <1>4, <1>5, <1>6, <1>7, <1>8, <1>9, <1>10, <1>11, <1>12, <1>13, <1>14
  DEF ExecuteNode

-----------------------------------------------------------------------------
(* The invariant of the writes.                                             *)

LEMMA InitIInv == Init => IInv
<1> SUFFICES ASSUME Init PROVE IInv
  OBVIOUS
<1>1. setup \in Setups /\ db = NewRun("absent", NoTimers(setup)) /\ run = db
  BY DEF Init
<1>2. /\ db \in Stored /\ db.status = "absent" /\ db.once = {}
      /\ \A n \in DOMAIN setup.nodes : db.timers[n] = "none"
  BY <1>1, NewTypes
<1>3. attempt \in Attempt
  BY <1>1, NoAttemptTypes DEF Init
<1>4. Types
  <2>1. NoBaseline \in Baselines
    BY DEF NoBaseline, Baselines
  <2>2. [i \in 0 .. MaxInputs |-> 0] \in [0 .. MaxInputs -> Nat]
    OBVIOUS
  <2> QED
    BY <1>1, <1>2, <1>3, <2>1, <2>2 DEF Init, Types
<1>5. Phases
  BY DEF Init, Phases
<1>6. Born /\ TimersKnown /\ MemosKnown
  BY <1>1, <1>2 DEF Init, Born, Exists, Blank, TimersKnown, MemosKnown
<1>7. Executed
  <2> SUFFICES ASSUME NEW key \in DOMAIN calls
               PROVE  calls[key] <= crashes + failures + Granted(key)
    BY DEF Executed
  <2> QED
    BY <1>2 DEF Init, Granted
<1> QED
  BY <1>4, <1>5, <1>6, <1>7 DEF IInv

(* The set of runs and of attempts depends on the graph, which stays.       *)
LEMMA SetsKept ==
  ASSUME setup' = setup
  PROVE  Stored' = Stored /\ Attempt' = Attempt /\ Size' = Size
BY DEF Stored, Attempt, Size, RunsWith

LEMMA Unchanged ==
  ASSUME IInv, UNCHANGED vars
  PROVE  IInv'
<1>1. /\ setup' = setup /\ db' = db /\ run' = run /\ baseline' = baseline /\ up' = up
      /\ pc' = pc /\ after' = after /\ attempt' = attempt /\ sent' = sent
      /\ crashes' = crashes /\ failures' = failures /\ errors' = errors
      /\ calls' = calls
  BY DEF vars
<1>2. Types' /\ Phases'
  BY <1>1, SetsKept DEF IInv, Types, Phases
<1>3. Born' /\ TimersKnown' /\ MemosKnown'
  BY <1>1 DEF IInv, Born, Exists, Blank, TimersKnown, Current, MemosKnown
<1>4. Executed'
  BY <1>1 DEF IInv, Executed, Granted
<1> QED
  BY <1>2, <1>3, <1>4 DEF IInv

LEMMA SumKept == \A a, b, c \in Nat : b <= c => a + b <= a + c
OBVIOUS

(* The number of failures makes up for a memo that is lost.                 *)
LEMMA ExecutedKept ==
  ASSUME Types, Types', Executed, calls' = calls,
         crashes + failures <= crashes' + failures',
         \/ crashes + failures < crashes' + failures'
         \/ /\ db.once \subseteq db'.once
            /\ pc = "memo" => LastInput(attempt.session) \in db'.once
  PROVE  Executed'
<1> SUFFICES ASSUME NEW key \in DOMAIN calls
             PROVE  calls[key] <= crashes' + failures' + Granted(key)'
  BY DEF Executed
<1>1. /\ crashes \in Nat /\ failures \in Nat /\ crashes' \in Nat /\ failures' \in Nat
      /\ calls[key] \in Nat
  BY DEF Types
<1>2. calls[key] <= crashes + failures + Granted(key)
  BY DEF Executed
<1>3. Granted(key) \in {0, 1} /\ Granted(key)' \in {0, 1}
  BY DEF Granted
<1>4. \/ crashes + failures < crashes' + failures'
      \/ Granted(key) = 1 => Granted(key)' = 1
  BY DEF Granted
<1> DEFINE old  == Granted(key)
           new  == Granted(key)'
           done == calls[key]
           e    == crashes + failures
           f    == crashes' + failures'
<1>5. done \in Nat /\ e \in Nat /\ f \in Nat
  <2>1. done \in Nat
    BY <1>1
  <2>2. e \in Nat
    BY <1>1
  <2>3. f \in Nat
    <3>1. crashes' \in Nat /\ failures' \in Nat
      BY <1>1
    <3>2. \A m, n \in Nat : m + n \in Nat
      OBVIOUS
    <3> QED
      BY <3>1, <3>2
  <2> QED
    BY <2>1, <2>2, <2>3
<1>7. old \in {0, 1} /\ new \in {0, 1}
  BY <1>3
<1>8. done <= e + old /\ e <= f
  BY <1>2
<1>9. e < f \/ (old = 1 => new = 1)
  BY <1>4
<1> HIDE DEF old, new, done, e, f
<1>6. done <= f + new
  BY <1>5, <1>7, <1>8, <1>9
<1> QED
  BY <1>6 DEF new, done, f

(* What store.get returns, between two operations or before an execution.   *)
LEMMA LoadedTypes ==
  ASSUME IInv
  PROVE  /\ Loaded \in Stored
         /\ ~ Exists(Loaded) => Blank(Loaded)
         /\ Exists(Loaded) <=> Exists(db)
         /\ \A n \in DOMAIN setup.nodes :
              Loaded.timers[n] = "none" => db.timers[n] = "none"
         /\ db.once \subseteq Loaded.once
BY DEF IInv, Types, Loaded, Born, TimersKnown, Current, MemosKnown

(* An operation begins with the run the store returns.                      *)
LEMMA StartsIInv ==
  ASSUME IInv, Send \/ Resume \/ ResumeOrphan
  PROVE  IInv'
<1>1. /\ pc = "idle" /\ up /\ run' = Loaded
      /\ pc' \in {"append", "create", "resume"}
      /\ pc' = "create" => ~ Exists(Loaded)
      /\ pc' # "create" => Exists(Loaded)
      /\ pc' # "resume" => sent < MaxInputs /\ sent' = sent + 1
      /\ pc' = "resume" => sent' = sent
      /\ setup' = setup /\ db' = db /\ baseline' = baseline /\ up' = up
      /\ after' = after /\ attempt' = attempt /\ crashes' = crashes
      /\ failures' = failures /\ errors' = errors /\ calls' = calls
  BY DEF Send, Resume, ResumeOrphan, Ready, faults, Orphan, Exists
<1>2. Types'
  <2>1. sent' \in 0 .. MaxInputs
    BY <1>1 DEF IInv, Types
  <2> QED
    BY <1>1, <2>1, LoadedTypes, SetsKept DEF IInv, Types
<1>3. Phases'
  <2>1. after = "none" /\ sent \in Nat
    BY <1>1 DEF IInv, Types, Phases, Nodes, Persisting
  <2> QED
    BY <1>1, <2>1 DEF Phases
<1>4. Born'
  BY <1>1, LoadedTypes DEF IInv, Born, Exists, Blank
<1>5. TimersKnown' /\ MemosKnown'
  BY <1>1, LoadedTypes DEF TimersKnown, MemosKnown
<1>6. Executed'
  BY <1>1, <1>2, ExecutedKept DEF IInv, Types
<1> QED
  BY <1>2, <1>3, <1>4, <1>5, <1>6 DEF IInv

LEMMA FireTimerIInv ==
  ASSUME IInv, NEW n \in DOMAIN setup.nodes, FireTimer(n)
  PROVE  IInv'
<1> DEFINE new == WithTimer(db, n, "fired")
<1>1. /\ pc = "idle" /\ Loaded.timers[n] = "pending"
      /\ run' = WithTimer(Loaded, n, "fired")
      /\ \/ db' = new /\ failures' = failures /\ pc' = "resume"
         \/ /\ db' \in (IF setup.cached THEN {db} ELSE {db, new})
            /\ failures < MaxFailures /\ failures' = failures + 1 /\ pc' = "idle"
      /\ setup' = setup /\ baseline' = baseline /\ up' = up
      /\ after' = after /\ attempt' = attempt /\ crashes' = crashes /\ sent' = sent
      /\ errors' = errors /\ calls' = calls
  BY DEF FireTimer, Ready, Saved, Unsaved
<1>2. /\ setup \in Setups /\ db \in Stored /\ Loaded \in Stored /\ failures \in 0 .. MaxFailures
      /\ crashes \in Nat
  BY LoadedTypes DEF IInv, Types
<1>3. /\ run' \in Stored /\ run'.status = Loaded.status /\ run'.once = Loaded.once
      /\ \A m \in DOMAIN setup.nodes :
           run'.timers[m] = IF m = n THEN "fired" ELSE Loaded.timers[m]
  <2>1. "fired" \in TimerStates
    BY DEF TimerStates
  <2> QED
    BY <1>1, <1>2, <2>1, WithTimerTypes
<1>12. /\ new \in Stored /\ new.status = db.status /\ new.once = db.once
       /\ \A m \in DOMAIN setup.nodes :
            new.timers[m] = IF m = n THEN "fired" ELSE db.timers[m]
  <2>1. "fired" \in TimerStates
    BY DEF TimerStates
  <2> QED
    BY <1>2, <2>1, WithTimerTypes
<1> HIDE DEF new
<1>4. Exists(Loaded)
  BY <1>1, <1>2, LoadedTypes, NewTypes DEF Blank
<1>5. /\ db' \in Stored /\ db'.status = db.status /\ db'.once = db.once
      /\ failures' \in 0 .. MaxFailures
      /\ \A m \in DOMAIN setup.nodes : db'.timers[m] = db.timers[m] \/ (m = n /\ db'.timers[m] = "fired")
  BY <1>1, <1>2, <1>12
<1>6. Types'
  BY <1>1, <1>3, <1>5, SetsKept DEF IInv, Types
<1>7. Phases'
  <2>1. after = "none"
    BY <1>1 DEF IInv, Phases, Nodes, Persisting
  <2> QED
    BY <1>1, <2>1 DEF Phases
<1>8. Born'
  BY <1>1, <1>3, <1>4, <1>5, LoadedTypes DEF Born, Exists
<1>9. TimersKnown'
  <2> SUFFICES ASSUME NEW m \in DOMAIN setup.nodes, run'.timers[m] = "none"
               PROVE  db'.timers[m] = "none"
    BY <1>1 DEF TimersKnown
  <2> QED
    BY <1>3, <1>5, LoadedTypes
<1>10. MemosKnown'
  BY <1>1, <1>3, <1>5, LoadedTypes DEF MemosKnown
<1>11. Executed'
  <2>1. failures \in Nat /\ failures' \in Nat /\ failures <= failures'
    BY <1>1, <1>2
  <2>2. crashes + failures <= crashes' + failures'
    BY <1>1, <1>2, <2>1, SumKept
  <2> QED
    BY <1>1, <1>5, <1>6, <2>2, ExecutedKept DEF IInv
<1> QED
  BY <1>6, <1>7, <1>8, <1>9, <1>10, <1>11 DEF IInv

LEMMA CreateIInv ==
  ASSUME IInv, Create
  PROVE  IInv'
<1> DEFINE new == NewRun("open", NoTimers(setup))
<1>1. /\ pc = "create"
      /\ \/ /\ db' = new /\ failures' = failures /\ run' = new
            /\ baseline' = BaselineOf(new.session) /\ pc' = "append"
         \/ /\ db' \in (IF setup.cached THEN {db} ELSE {db, new})
            /\ failures < MaxFailures /\ failures' = failures + 1
            /\ run' = run /\ baseline' = baseline /\ pc' = "idle"
      /\ setup' = setup /\ up' = up /\ after' = after /\ attempt' = attempt
      /\ sent' = sent /\ crashes' = crashes /\ errors' = errors /\ calls' = calls
  BY DEF Create, Saved, Unsaved
<1>2. /\ setup \in Setups /\ db \in Stored /\ run \in Stored
      /\ failures \in 0 .. MaxFailures /\ crashes \in Nat /\ baseline \in Baselines
  BY DEF IInv, Types
<1>3. /\ new \in Stored /\ new.status = "open" /\ new.once = {}
      /\ new.session = EmptySession
      /\ \A n \in DOMAIN setup.nodes : new.timers[n] = "none"
  BY <1>2, NewTypes
<1> HIDE DEF new
<1>4. db.once = {}
  BY <1>1, <1>2, NewTypes DEF IInv, Born, Blank
<1>5. Types'
  <2>1. BaselineOf(new.session) \in Baselines
    BY <1>3, EmptyTypes DEF BaselineOf, Baselines
  <2> QED
    BY <1>1, <1>2, <1>3, <2>1, SetsKept DEF IInv, Types
<1>6. Phases'
  BY <1>1 DEF IInv, Phases, Nodes, Persisting
<1>7. Born'
  BY <1>1, <1>3 DEF IInv, Born, Exists, Blank
<1>8. TimersKnown' /\ MemosKnown'
  BY <1>1, <1>3 DEF IInv, TimersKnown, MemosKnown, Current
<1>9. Executed'
  BY <1>1, <1>2, <1>4, <1>5, ExecutedKept DEF IInv
<1> QED
  BY <1>5, <1>6, <1>7, <1>8, <1>9 DEF IInv

LEMMA AppendIInv ==
  ASSUME IInv, AppendInput
  PROVE  IInv'
<1> DEFINE entry  == [offset |-> Len(run.inbox), id |-> sent]
           pushed == [run EXCEPT !.inbox = Append(@, entry)]
           new    == WithEntry(db, entry)
<1>1. /\ pc = "append"
      /\ \/ /\ db' = new /\ failures' = failures
            /\ run' = [pushed EXCEPT !.status = "open"]
            /\ pc' \in {"reopen", "resume"}
         \/ /\ db' \in (IF setup.cached THEN {db} ELSE {db, new})
            /\ failures < MaxFailures /\ failures' = failures + 1
            /\ run' = pushed /\ pc' = "idle"
      /\ setup' = setup /\ up' = up /\ after' = after /\ attempt' = attempt
      /\ baseline' = baseline
      /\ sent' = sent /\ crashes' = crashes /\ errors' = errors /\ calls' = calls
  BY DEF AppendInput, Saved, Unsaved
<1>2. /\ setup \in Setups /\ db \in Stored /\ run \in Stored
      /\ failures \in 0 .. MaxFailures /\ crashes \in Nat /\ sent \in 0 .. MaxInputs
      /\ Exists(run) /\ Exists(db) /\ sent > 0
  BY <1>1 DEF IInv, Types, Born, Phases
<1>3. entry \in Entries
  BY <1>2, StoredFields DEF Entries
<1>4. /\ new \in Stored /\ new.status = db.status /\ new.timers = db.timers
      /\ new.once = db.once
      /\ pushed \in Stored
  BY <1>2, <1>3, WithEntryTypes
<1>5. /\ run' \in Stored /\ run'.timers = run.timers /\ run'.once = run.once
      /\ Exists(run')
  BY <1>1, <1>2, <1>4 DEF Stored, RunsWith, Exists
<1> HIDE DEF new
<1>6. /\ db' \in Stored /\ db'.status = db.status /\ db'.timers = db.timers
      /\ db'.once = db.once /\ failures' \in 0 .. MaxFailures
      /\ crashes + failures <= crashes' + failures'
  BY <1>1, <1>2, <1>4
<1>7. Types'
  BY <1>1, <1>5, <1>6, SetsKept DEF IInv, Types
<1>8. Phases'
  BY <1>1 DEF IInv, Phases, Nodes, Persisting
<1>9. Born'
  BY <1>1, <1>2, <1>5, <1>6 DEF Born, Exists
<1>10. TimersKnown' /\ MemosKnown'
  BY <1>1, <1>5, <1>6 DEF IInv, TimersKnown, MemosKnown, Current
<1>11. Executed'
  BY <1>1, <1>6, <1>7, ExecutedKept DEF IInv
<1> QED
  BY <1>7, <1>8, <1>9, <1>10, <1>11 DEF IInv

LEMMA ReopenIInv ==
  ASSUME IInv, Reopen
  PROVE  IInv'
<1> DEFINE new == [db EXCEPT !.status = "open"]
<1>1. /\ pc = "reopen"
      /\ \/ db' = new /\ failures' = failures /\ pc' = "resume"
         \/ /\ db' \in (IF setup.cached THEN {db} ELSE {db, new})
            /\ failures < MaxFailures /\ failures' = failures + 1 /\ pc' = "idle"
      /\ setup' = setup /\ run' = run /\ up' = up /\ after' = after
      /\ attempt' = attempt /\ baseline' = baseline
      /\ sent' = sent /\ crashes' = crashes /\ errors' = errors /\ calls' = calls
  BY DEF Reopen, Saved, Unsaved
<1>2. /\ db \in Stored /\ failures \in 0 .. MaxFailures /\ crashes \in Nat
      /\ Exists(run) /\ Exists(db)
  BY <1>1 DEF IInv, Types, Born
<1>3. /\ new \in Stored /\ new.status = "open" /\ new.timers = db.timers
      /\ new.once = db.once
  BY <1>2 DEF Stored, RunsWith
<1> HIDE DEF new
<1>4. /\ db' \in Stored /\ Exists(db') /\ db'.timers = db.timers
      /\ db'.once = db.once /\ failures' \in 0 .. MaxFailures
      /\ crashes + failures <= crashes' + failures'
  BY <1>1, <1>2, <1>3 DEF Exists
<1>5. Types'
  BY <1>1, <1>4, SetsKept DEF IInv, Types
<1>6. Phases'
  BY <1>1 DEF IInv, Phases, Nodes, Persisting
<1>7. Born'
  BY <1>1, <1>2, <1>4 DEF Born, Exists
<1>8. TimersKnown' /\ MemosKnown'
  BY <1>1, <1>4 DEF IInv, TimersKnown, MemosKnown, Current
<1>9. Executed'
  BY <1>1, <1>4, <1>5, ExecutedKept DEF IInv
<1> QED
  BY <1>5, <1>6, <1>7, <1>8, <1>9 DEF IInv

LEMMA ResumeRunIInv ==
  ASSUME IInv, ResumeRun
  PROVE  IInv'
<1>1. /\ pc = "resume" /\ run' = Loaded
      /\ \/ pc' = "idle" /\ after' = "none" /\ attempt' = NoAttempt
         \/ pc' = "delta" /\ after' = "execute" /\ attempt' = Begin(Loaded)
      /\ setup' = setup /\ db' = db /\ baseline' = baseline /\ up' = up
      /\ sent' = sent /\ crashes' = crashes /\ failures' = failures
      /\ errors' = errors /\ calls' = calls
  BY DEF ResumeRun, EndOperation, faults
<1>2. setup \in Setups /\ crashes \in Nat /\ failures \in Nat /\ Exists(db)
  BY <1>1 DEF IInv, Types, Born
<1>3. attempt' \in Attempt
  BY <1>1, <1>2, LoadedTypes, BeginTypes, NoAttemptTypes
<1>4. Types'
  BY <1>1, <1>3, LoadedTypes, SetsKept DEF IInv, Types
<1>5. Phases'
  BY <1>1 DEF Phases, Persisting
<1>6. Born'
  BY <1>1, <1>2, LoadedTypes DEF IInv, Born, Exists, Blank
<1>7. TimersKnown' /\ MemosKnown'
  BY <1>1, LoadedTypes DEF TimersKnown, MemosKnown
<1>8. Executed'
  BY <1>1, <1>2, <1>4, ExecutedKept DEF IInv
<1> QED
  BY <1>4, <1>5, <1>6, <1>7, <1>8 DEF IInv

(* What comes after persistRun, whether it failed or not.                   *)
Follows ==
  \/ /\ after = "execute"
     /\ pc' \in {"node", "loop", "end"} /\ (pc' # "end" => attempt.pos <= Size)
     /\ after' = after /\ attempt' = attempt /\ run' = run
  \/ /\ pc' = "idle" /\ after' = "none" /\ attempt' = NoAttempt /\ run' = run
  \/ /\ after = "done"
     /\ pc' = "delta" /\ after' = "rollback" /\ attempt' = attempt
     /\ run' = RolledBack(run, attempt.entry)

LEMMA PersistFollows ==
  ASSUME setup \in Setups, attempt \in Attempt,
         NotPersisted \/ (Persisted /\ run' = run)
  PROVE  Follows
<1>1. /\ attempt.pos \in 1 .. Size + 1
      /\ Coming(attempt.pos) \in {"node", "loop", "end"}
      /\ Coming(attempt.pos) # "end" => attempt.pos <= Size
  BY EntryFields, ComingNodes
<1> QED
  BY <1>1 DEF NotPersisted, Persisted, EndOperation, Follows

LEMMA FollowsTypes ==
  ASSUME IInv, setup' = setup, pc \in Persisting, Follows
  PROVE  /\ run' \in Stored /\ attempt' \in Attempt
         /\ run'.status = run.status /\ run'.inbox = run.inbox
         /\ run'.timers = run.timers /\ run'.once = run.once
         /\ pc' # "memo" /\ pc' \notin {"create", "append"}
         /\ \/ pc' = "idle" /\ after' = "none"
            \/ pc' \in Nodes /\ after' = "execute" /\ (pc' # "end" => attempt'.pos <= Size)
            \/ pc' = "delta" /\ after' = "rollback"
<1>1. run \in Stored /\ attempt \in Attempt /\ setup \in Setups
  BY DEF IInv, Types
<1> QED
  BY <1>1, NoAttemptTypes, RolledBackTypes DEF Follows, Nodes

LEMMA BaselineTypes ==
  ASSUME NEW s \in Sessions
  PROVE  /\ BaselineOf(s) \in Baselines /\ BaselineOf(s) # NoBaseline
         /\ BaselineOf(s).version = s.version /\ BaselineOf(s).count = Len(s.messages)
<1>1. s.version \in Nat /\ Len(s.messages) \in Nat
  BY SessionFields
<1> QED
  BY <1>1 DEF BaselineOf, Baselines, NoBaseline

(* The two writes of persistRun.                                            *)
Base == IF baseline = NoBaseline THEN BaselineOf(run.session) ELSE baseline

LEMMA BaseTypes == ASSUME Types PROVE Base \in Baselines /\ Base # NoBaseline
BY BaselineTypes, StoredFields DEF Types, Base

DeltaSteps ==
  /\ pc = "delta"
  /\ LET new == WithDelta(db, run.session, Base) IN
       \/ /\ run.session.version = Base.version
          /\ db' = db /\ failures' = failures /\ baseline' = Base
          /\ pc' = "patch" /\ run' = run /\ after' = after /\ attempt' = attempt
       \/ /\ run.session.version # Base.version
          /\ db' = new /\ failures' = failures /\ baseline' = BaselineOf(run.session)
          /\ pc' = "patch" /\ run' = run /\ after' = after /\ attempt' = attempt
       \/ /\ run.session.version # Base.version
          /\ db' \in (IF setup.cached THEN {db} ELSE {db, new})
          /\ failures < MaxFailures /\ failures' = failures + 1 /\ baseline' = Base
          /\ Follows
  /\ setup' = setup /\ up' = up /\ sent' = sent /\ crashes' = crashes
  /\ errors' = errors /\ calls' = calls

LEMMA DeltaShape == ASSUME IInv, PersistDelta PROVE DeltaSteps
<1>1. setup \in Setups /\ attempt \in Attempt
  BY DEF IInv, Types
<1>2. NotPersisted => Follows
  BY <1>1, PersistFollows
<1> QED
  BY <1>2 DEF PersistDelta, DeltaSteps, Base, Saved, Unsaved

PatchSteps ==
  /\ pc = "patch" /\ Follows
  /\ LET new == WithPatch(db, run) IN
       \/ db' = new /\ failures' = failures /\ run' = run
       \/ /\ db' \in (IF setup.cached THEN {db} ELSE {db, new})
          /\ failures < MaxFailures /\ failures' = failures + 1
  /\ setup' = setup /\ baseline' = baseline /\ up' = up /\ sent' = sent
  /\ crashes' = crashes /\ errors' = errors /\ calls' = calls

LEMMA PatchShape == ASSUME IInv, PersistPatch PROVE PatchSteps
<1>1. setup \in Setups /\ attempt \in Attempt
  BY DEF IInv, Types
<1>2. NotPersisted \/ (Persisted /\ run' = run) => Follows
  BY <1>1, PersistFollows
<1> QED
  BY <1>2 DEF PersistPatch, PatchSteps, Saved, Unsaved

LEMMA PersistDeltaIInv ==
  ASSUME IInv, PersistDelta
  PROVE  IInv'
<1> DEFINE new == WithDelta(db, run.session, Base)
<1>1. /\ DeltaSteps /\ pc = "delta" /\ setup' = setup /\ up' = up /\ sent' = sent
      /\ crashes' = crashes /\ errors' = errors /\ calls' = calls
  BY DeltaShape DEF DeltaSteps
<1>2. /\ setup \in Setups /\ db \in Stored /\ run \in Stored /\ attempt \in Attempt
      /\ failures \in 0 .. MaxFailures /\ crashes \in Nat
      /\ Exists(run) /\ Exists(db)
      /\ after \in {"execute", "done", "suspended", "rollback"}
  BY <1>1 DEF IInv, Types, Born, Phases, Nodes, Persisting
<1>3. /\ Base \in Baselines /\ BaselineOf(run.session) \in Baselines
      /\ run.session \in Sessions
  BY <1>2, BaseTypes, BaselineTypes, StoredFields DEF IInv
<1>4. /\ new \in Stored /\ new.status = db.status /\ new.timers = db.timers
      /\ new.once = db.once
  BY <1>2, <1>3, WithDeltaTypes
<1>5. /\ db' \in {db, new} /\ failures' \in 0 .. MaxFailures /\ failures <= failures'
      /\ baseline' \in {Base, BaselineOf(run.session)}
      /\ \/ pc' = "patch" /\ run' = run /\ after' = after /\ attempt' = attempt
         \/ Follows
  BY <1>1, <1>2 DEF DeltaSteps
<1> HIDE DEF new
<1>6. /\ run' \in Stored /\ attempt' \in Attempt /\ run'.status = run.status
      /\ run'.timers = run.timers /\ run'.once = run.once /\ pc' # "memo"
      /\ pc' \notin {"create", "append"}
      /\ \/ pc' = "idle" /\ after' = "none"
         \/ pc' \in Nodes /\ after' = "execute" /\ (pc' # "end" => attempt'.pos <= Size)
         \/ pc' \in Persisting /\ after' \in {"execute", "done", "suspended", "rollback"}
  BY <1>1, <1>2, <1>5, FollowsTypes DEF Persisting
<1>7. /\ db' \in Stored /\ db'.status = db.status /\ db'.timers = db.timers
      /\ db'.once = db.once /\ baseline' \in Baselines
  BY <1>2, <1>3, <1>4, <1>5
<1>8. Types'
  BY <1>1, <1>5, <1>6, <1>7, SetsKept DEF IInv, Types
<1>9. Phases'
  BY <1>1, <1>6, SetsKept DEF Phases, Nodes, Persisting
<1>10. Born'
  BY <1>1, <1>2, <1>6, <1>7 DEF Born, Exists
<1>11. TimersKnown' /\ MemosKnown'
  BY <1>1, <1>6, <1>7 DEF IInv, TimersKnown, MemosKnown, Current
<1>12. Executed'
  BY <1>1, <1>2, <1>5, <1>7, <1>8, ExecutedKept DEF IInv
<1> QED
  BY <1>8, <1>9, <1>10, <1>11, <1>12 DEF IInv

LEMMA PersistPatchIInv ==
  ASSUME IInv, PersistPatch
  PROVE  IInv'
<1> DEFINE new == WithPatch(db, run)
<1>1. /\ PatchSteps /\ pc = "patch" /\ setup' = setup /\ up' = up /\ sent' = sent
      /\ baseline' = baseline
      /\ crashes' = crashes /\ errors' = errors /\ calls' = calls
  BY PatchShape DEF PatchSteps
<1>2. /\ setup \in Setups /\ db \in Stored /\ run \in Stored /\ attempt \in Attempt
      /\ failures \in 0 .. MaxFailures /\ crashes \in Nat
      /\ Exists(run) /\ Exists(db)
  BY <1>1 DEF IInv, Types, Born
<1>3. /\ new \in Stored /\ new.status = run.status /\ new.timers = db.timers
      /\ new.once = db.once
  BY <1>2, WithPatchTypes
<1>4. /\ db' \in {db, new} /\ failures' \in 0 .. MaxFailures /\ failures <= failures'
      /\ Follows
  BY <1>1, <1>2 DEF PatchSteps
<1> HIDE DEF new
<1>5. /\ run' \in Stored /\ attempt' \in Attempt /\ run'.status = run.status
      /\ run'.timers = run.timers /\ run'.once = run.once /\ pc' # "memo"
      /\ pc' \notin {"create", "append"}
      /\ \/ pc' = "idle" /\ after' = "none"
         \/ pc' \in Nodes /\ after' = "execute" /\ (pc' # "end" => attempt'.pos <= Size)
         \/ pc' = "delta" /\ after' = "rollback"
  BY <1>1, <1>2, <1>4, FollowsTypes DEF Persisting
<1>6. /\ db' \in Stored /\ Exists(db') /\ db'.timers = db.timers
      /\ db'.once = db.once
  BY <1>2, <1>3, <1>4 DEF Exists
<1>7. Types'
  BY <1>1, <1>4, <1>5, <1>6, SetsKept DEF IInv, Types
<1>8. Phases'
  BY <1>1, <1>5, SetsKept DEF Phases, Nodes, Persisting
<1>9. Born'
  BY <1>1, <1>2, <1>5, <1>6 DEF Born, Exists
<1>10. TimersKnown' /\ MemosKnown'
  BY <1>1, <1>5, <1>6 DEF IInv, TimersKnown, MemosKnown, Current
<1>11. Executed'
  BY <1>1, <1>2, <1>4, <1>6, <1>7, ExecutedKept DEF IInv
<1> QED
  BY <1>7, <1>8, <1>9, <1>10, <1>11 DEF IInv

(* An execution that goes on or ends, and touches neither store nor memo.   *)
LEMMA QuietIInv ==
  ASSUME IInv, Quiet \/ Settles, UNCHANGED << setup, baseline, up, sent, crashes >>
  PROVE  IInv'
<1>1. /\ setup' = setup /\ db' = db /\ baseline' = baseline /\ up' = up
      /\ sent' = sent /\ crashes' = crashes /\ failures' = failures /\ calls' = calls
      /\ pc \in {"node", "loop", "end"} /\ errors' \in 0 .. MaxErrors
      /\ \/ Advances /\ run' = run /\ after' = after
         \/ Leaves(run)
  BY DEF Quiet, Settles, IInv, Types
<1>2. /\ after = "execute" /\ Exists(run) /\ Exists(db) /\ run \in Stored
      /\ attempt \in Attempt /\ crashes \in Nat /\ failures \in Nat
  BY <1>1 DEF IInv, Phases, Born, Types, Nodes, Persisting
<1>3. /\ run' \in Stored /\ attempt' \in Attempt /\ Exists(run')
      /\ run'.timers = run.timers /\ run'.once = run.once
      /\ \/ /\ pc' \in {"node", "loop", "end"} /\ after' = "execute"
            /\ pc' # "end" => attempt'.pos <= Size
         \/ pc' = "delta" /\ after' \in {"done", "suspended", "rollback"}
  BY <1>1, <1>2 DEF Advances, Leaves
<1>4. Types'
  BY <1>1, <1>3, SetsKept DEF IInv, Types
<1>5. Phases'
  BY <1>1, <1>3, SetsKept DEF Phases, Nodes, Persisting
<1>6. Born'
  BY <1>1, <1>2, <1>3 DEF Born, Exists
<1>7. TimersKnown' /\ MemosKnown'
  BY <1>1, <1>3 DEF IInv, TimersKnown, MemosKnown, Current
<1>8. Executed'
  BY <1>1, <1>2, <1>4, ExecutedKept DEF IInv
<1> QED
  BY <1>4, <1>5, <1>6, <1>7, <1>8 DEF IInv

LEMMA ArmsIInv ==
  ASSUME IInv, Arms, UNCHANGED << setup, baseline, up, sent, crashes >>
  PROVE  IInv'
<1> DEFINE n     == attempt.pos
           new   == WithTimer(db, n, "pending")
           armed == WithTimer(run, n, "pending")
<1>1. /\ setup' = setup /\ baseline' = baseline /\ up' = up /\ sent' = sent
      /\ crashes' = crashes /\ errors' = errors /\ calls' = calls
      /\ pc = "node" /\ n \in DOMAIN setup.nodes
      /\ Saved(new) \/ Unsaved(new)
      /\ Leaves(armed)
  BY DEF Arms
<1>2. /\ db \in Stored /\ run \in Stored /\ Exists(run) /\ Exists(db)
      /\ failures \in 0 .. MaxFailures /\ crashes \in Nat /\ attempt \in Attempt
  BY <1>1 DEF IInv, Types, Born
<1>3. "pending" \in TimerStates
  BY DEF TimerStates
<1>4. /\ armed \in Stored /\ armed.status = run.status /\ armed.once = run.once
      /\ \A m \in DOMAIN setup.nodes :
           armed.timers[m] = IF m = n THEN "pending" ELSE run.timers[m]
  BY <1>1, <1>2, <1>3, WithTimerTypes
<1>5. /\ new \in Stored /\ new.status = db.status /\ new.once = db.once
      /\ \A m \in DOMAIN setup.nodes :
           new.timers[m] = IF m = n THEN "pending" ELSE db.timers[m]
  BY <1>1, <1>2, <1>3, WithTimerTypes
<1> HIDE DEF new, armed
<1>6. /\ db' \in {db, new} /\ failures' \in 0 .. MaxFailures /\ failures <= failures'
  BY <1>1, <1>2 DEF Saved, Unsaved
<1>7. /\ run' \in Stored /\ Exists(run') /\ run'.timers = armed.timers
      /\ run'.once = run.once /\ attempt' = attempt
      /\ pc' = "delta" /\ after' \in {"done", "suspended", "rollback"}
  BY <1>1, <1>2, <1>4 DEF Leaves, Exists
<1>8. Types'
  BY <1>1, <1>2, <1>5, <1>6, <1>7, SetsKept DEF IInv, Types
<1>9. Phases'
  BY <1>1, <1>7 DEF Phases, Persisting
<1>10. Born'
  BY <1>1, <1>2, <1>5, <1>6, <1>7 DEF Born, Exists
<1>11. TimersKnown'
  <2> SUFFICES ASSUME NEW m \in DOMAIN setup.nodes, run'.timers[m] = "none"
               PROVE  db'.timers[m] = "none"
    BY <1>1 DEF TimersKnown
  <2>1. m # n /\ run.timers[m] = "none"
    BY <1>4, <1>7
  <2> QED
    BY <1>1, <1>5, <1>6, <2>1 DEF IInv, TimersKnown, Current
<1>12. MemosKnown'
  BY <1>1, <1>5, <1>6, <1>7 DEF IInv, MemosKnown, Current
<1>13. Executed'
  <2>1. crashes + failures <= crashes' + failures'
    <3>1. /\ crashes \in Nat /\ failures \in Nat /\ failures' \in Nat
          /\ failures <= failures'
      BY <1>2, <1>6
    <3> QED
      BY <1>1, <3>1, SumKept
  <2>2. db'.once = db.once
    BY <1>5, <1>6
  <2> QED
    BY <1>1, <1>8, <2>1, <2>2, ExecutedKept DEF IInv
<1> QED
  BY <1>8, <1>9, <1>10, <1>11, <1>12, <1>13 DEF IInv

(* An effect is executed: its memo is not known, so it is not stored.       *)
LEMMA ActsIInv ==
  ASSUME IInv, Acts, UNCHANGED << setup, baseline, up, sent, crashes >>
  PROVE  IInv'
<1> DEFINE key == LastInput(attempt.session)
<1>1. /\ setup' = setup /\ db' = db /\ baseline' = baseline /\ up' = up /\ sent' = sent
      /\ crashes' = crashes /\ failures' = failures /\ errors' = errors
      /\ pc = "node" /\ pc' = "memo" /\ after' = after /\ attempt' = attempt
      /\ key \notin run.once
      /\ calls' = [calls EXCEPT ![key] = @ + 1]
      /\ run' = WithMemo(run, key)
  BY DEF Acts
<1>2. /\ run \in Stored /\ Exists(run) /\ Exists(db) /\ failures \in Nat
      /\ crashes \in Nat /\ attempt \in Attempt /\ after = "execute"
      /\ attempt.pos <= Size /\ calls \in [0 .. MaxInputs -> Nat]
  BY <1>1 DEF IInv, Types, Born, Phases, Nodes, Persisting
<1>3. key \in Message
  BY <1>2, EntryFields, KeyTypes
<1>4. /\ run' \in Stored /\ run'.status = run.status /\ run'.timers = run.timers
      /\ run'.once = run.once \cup {key}
  BY <1>1, <1>2, <1>3, WithMemoTypes
<1>5. Types'
  <2>1. calls' \in [0 .. MaxInputs -> Nat]
    <3>1. \A k \in 0 .. MaxInputs : calls[k] \in Nat /\ calls[k] + 1 \in Nat
      BY <1>2
    <3>2. calls' = [k \in 0 .. MaxInputs |-> IF k = key THEN calls[k] + 1 ELSE calls[k]]
      BY <1>1, <1>2
    <3> QED
      BY <3>1, <3>2
  <2> QED
    BY <1>1, <1>4, <2>1, SetsKept DEF IInv, Types
<1>6. Phases'
  BY <1>1, <1>2, SetsKept DEF Phases, Nodes
<1>7. Born'
  BY <1>1, <1>2, <1>4 DEF Born, Exists
<1>8. TimersKnown' /\ MemosKnown'
  BY <1>1, <1>4 DEF IInv, TimersKnown, MemosKnown, Current
<1>9. Executed'
  <2> SUFFICES ASSUME NEW k \in DOMAIN calls
               PROVE  calls'[k] <= crashes + failures + Granted(k)'
    BY <1>1 DEF Executed
  <2>1. calls[k] <= crashes + failures + Granted(k) /\ calls[k] \in Nat
    BY <1>2 DEF IInv, Executed
  <2>2. CASE k = key
    <3>1. k \notin db.once
      BY <1>1, <2>2 DEF IInv, MemosKnown, Current
    <3>2. Granted(k) = 0
      BY <1>1, <3>1 DEF Granted
    <3>3. Granted(k)' = 1
      BY <1>1, <2>2 DEF Granted
    <3>4. calls'[k] = calls[k] + 1
      BY <1>1, <2>2
    <3> QED
      BY <1>2, <2>1, <3>2, <3>3, <3>4
  <2>3. CASE k # key
    <3>1. calls'[k] = calls[k]
      BY <1>1, <2>3
    <3>2. Granted(k)' = Granted(k)
      BY <1>1, <2>3 DEF Granted
    <3> QED
      BY <2>1, <3>1, <3>2
  <2> QED
    BY <2>2, <2>3
<1> QED
  BY <1>5, <1>6, <1>7, <1>8, <1>9 DEF IInv

LEMMA RemembersIInv ==
  ASSUME IInv, Remembers, UNCHANGED << setup, baseline, up, sent, crashes >>
  PROVE  IInv'
<1> DEFINE key == LastInput(attempt.session)
           new == WithMemo(db, key)
<1>1. /\ setup' = setup /\ baseline' = baseline /\ up' = up /\ sent' = sent
      /\ crashes' = crashes /\ errors' = errors /\ calls' = calls /\ pc = "memo"
      /\ \/ Saved(new) /\ Advances /\ run' = run /\ after' = after
         \/ Unsaved(new) /\ Leaves(run)
  BY DEF Remembers
<1>2. /\ db \in Stored /\ run \in Stored /\ Exists(run) /\ Exists(db)
      /\ failures \in 0 .. MaxFailures /\ crashes \in Nat /\ attempt \in Attempt
      /\ after = "execute" /\ key \in run.once /\ db.once \subseteq run.once
  BY <1>1 DEF IInv, Types, Born, Phases, Nodes, Persisting, MemosKnown, Current
<1>3. key \in Message
  BY <1>2, EntryFields, KeyTypes
<1>4. /\ new \in Stored /\ new.status = db.status /\ new.timers = db.timers
      /\ new.once = db.once \cup {key}
  BY <1>2, <1>3, WithMemoTypes
<1> HIDE DEF new
<1>5. /\ db' \in {db, new} /\ failures' \in 0 .. MaxFailures
      /\ \/ db' = new /\ failures' = failures
         \/ crashes + failures < crashes' + failures'
      /\ crashes + failures <= crashes' + failures'
  BY <1>1, <1>2 DEF Saved, Unsaved
<1>6. /\ run' \in Stored /\ attempt' \in Attempt /\ Exists(run')
      /\ run'.timers = run.timers /\ run'.once = run.once
      /\ \/ /\ pc' \in {"node", "loop", "end"} /\ after' = "execute"
            /\ pc' # "end" => attempt'.pos <= Size
         \/ pc' = "delta" /\ after' \in {"done", "suspended", "rollback"}
  BY <1>1, <1>2 DEF Advances, Leaves
<1>7. Types'
  BY <1>1, <1>2, <1>4, <1>5, <1>6, SetsKept DEF IInv, Types
<1>8. Phases'
  BY <1>1, <1>6, SetsKept DEF Phases, Nodes, Persisting
<1>9. Born'
  BY <1>1, <1>2, <1>4, <1>5, <1>6 DEF Born, Exists
<1>10. TimersKnown' /\ MemosKnown'
  BY <1>1, <1>2, <1>4, <1>5, <1>6 DEF IInv, TimersKnown, MemosKnown, Current
<1>11. Executed'
  BY <1>1, <1>4, <1>5, <1>7, ExecutedKept DEF IInv
<1> QED
  BY <1>7, <1>8, <1>9, <1>10, <1>11 DEF IInv

LEMMA CrashIInv ==
  ASSUME IInv, Crash
  PROVE  IInv'
<1>1. /\ crashes < MaxCrashes /\ crashes' = crashes + 1 /\ up' = FALSE /\ run' = db
      /\ baseline' = NoBaseline /\ pc' = "idle" /\ after' = "none"
      /\ attempt' = NoAttempt /\ setup' = setup /\ db' = db /\ sent' = sent
      /\ failures' = failures /\ errors' = errors /\ calls' = calls
  BY DEF Crash, EndOperation
<1>2. /\ setup \in Setups /\ db \in Stored /\ crashes \in 0 .. MaxCrashes
      /\ failures \in Nat
  BY DEF IInv, Types
<1>3. attempt' \in Attempt /\ baseline' \in Baselines
  BY <1>1, <1>2, NoAttemptTypes DEF NoBaseline, Baselines
<1>4. /\ crashes' \in 0 .. MaxCrashes
      /\ crashes + failures < crashes' + failures'
  BY <1>1, <1>2
<1>5. Types'
  BY <1>1, <1>3, <1>4, SetsKept DEF IInv, Types
<1>6. Phases'
  BY <1>1 DEF Phases
<1>7. Born'
  BY <1>1 DEF IInv, Born, Exists, Blank
<1>8. TimersKnown' /\ MemosKnown'
  BY <1>1 DEF TimersKnown, MemosKnown
<1>9. Executed'
  BY <1>1, <1>2, <1>4, <1>5, ExecutedKept DEF IInv
<1> QED
  BY <1>5, <1>6, <1>7, <1>8, <1>9 DEF IInv

LEMMA RestartIInv ==
  ASSUME IInv, Restart
  PROVE  IInv'
<1>1. /\ setup' = setup /\ db' = db /\ run' = run /\ baseline' = baseline
      /\ up' = TRUE /\ pc' = pc /\ after' = after /\ attempt' = attempt /\ sent' = sent
      /\ crashes' = crashes /\ failures' = failures /\ errors' = errors
      /\ calls' = calls
  BY DEF Restart, faults
<1>2. Types' /\ Phases'
  BY <1>1, SetsKept DEF IInv, Types, Phases
<1>3. Born' /\ TimersKnown' /\ MemosKnown'
  BY <1>1 DEF IInv, Born, Exists, Blank, TimersKnown, Current, MemosKnown
<1>4. Executed'
  BY <1>1 DEF IInv, Executed, Granted
<1> QED
  BY <1>2, <1>3, <1>4 DEF IInv

(* The sweep's own steps change its wake and its list; a read of the store  *)
(* that fails is counted.                                                   *)
LEMMA SweepShape ==
  ASSUME IInv, WakeUp \/ EndSweep
  PROVE  /\ setup' = setup /\ db' = db /\ run' = run /\ baseline' = baseline
         /\ up' = up /\ pc' = pc /\ after' = after /\ attempt' = attempt
         /\ sent' = sent /\ crashes' = crashes /\ errors' = errors /\ calls' = calls
         /\ \/ failures' = failures
            \/ /\ ~ setup.cached /\ failures < MaxFailures
               /\ failures' = failures + 1
BY DEF WakeUp, EndSweep, ReadFails

LEMMA SweepIInv ==
  ASSUME IInv, WakeUp \/ EndSweep
  PROVE  IInv'
<1>1. failures \in 0 .. MaxFailures /\ crashes \in Nat
  BY DEF IInv, Types
<1>2. failures' \in 0 .. MaxFailures /\ failures <= failures'
  BY <1>1, SweepShape
<1>3. Types' /\ Phases'
  BY <1>2, SweepShape, SetsKept DEF IInv, Types, Phases
<1>4. Born' /\ TimersKnown' /\ MemosKnown'
  BY SweepShape DEF IInv, Born, Exists, Blank, TimersKnown, Current, MemosKnown
<1>5. Executed'
  <2>1. crashes \in Nat /\ failures \in Nat /\ failures' \in Nat
    BY <1>1, <1>2
  <2>2. crashes + failures <= crashes' + failures'
    BY <1>2, <2>1, SumKept, SweepShape
  <2> QED
    BY <1>3, <2>1, <2>2, SweepShape, ExecutedKept DEF IInv, Executed, Granted
<1> QED
  BY <1>3, <1>4, <1>5 DEF IInv

LEMMA NextIInv == IInv /\ [Next]_vars => IInv'
<1> SUFFICES ASSUME IInv, [Next]_vars PROVE IInv'
  OBVIOUS
<1>1. CASE Send \/ Resume \/ ResumeOrphan
  BY <1>1, StartsIInv
<1>2. CASE TimerSweep
  BY <1>2, FireTimerIInv, SweepIInv DEF TimerSweep, FireTimers
<1>3. CASE Create
  BY <1>3, CreateIInv
<1>4. CASE AppendInput
  BY <1>4, AppendIInv
<1>5. CASE Reopen
  BY <1>5, ReopenIInv
<1>6. CASE ResumeRun
  BY <1>6, ResumeRunIInv
<1>7. CASE PersistDelta
  BY <1>7, PersistDeltaIInv
<1>8. CASE PersistPatch
  BY <1>8, PersistPatchIInv
<1>9. CASE ExecuteNode
  <2>1. Executes
    BY <1>9, ExecuteShape DEF IInv
  <2> QED
    BY <2>1, QuietIInv, ArmsIInv, ActsIInv, RemembersIInv DEF Executes
<1>10. CASE Crash
  BY <1>10, CrashIInv
<1>11. CASE Restart
  BY <1>11, RestartIInv
<1>12. CASE UNCHANGED vars
  BY <1>12, Unchanged
<1> QED
  BY <1>1, <1>2, <1>3, <1>4, <1>5, <1>6, <1>7, <1>8, <1>9, <1>10, <1>11, <1>12
  DEF Next, Proceed

THEOREM RunInvariant == Spec => []IInv
BY InitIInv, NextIInv, PTL DEF Spec

(* Types of the whole state: what is stored, the run object and the attempt *)
(* stay well formed, and the phases of persistRun follow each other, over   *)
(* every fault (StoredRun and CheckpointContinuation of durable.ts).        *)
THEOREM RunTypeCorrect == Spec => [](Types /\ Phases)
<1>1. IInv => Types /\ Phases
  BY DEF IInv
<1> QED
  BY <1>1, RunInvariant, PTL

(* The keyed effect of an input is executed at most once more than          *)
(* something failed (createCheckpointOnceBoundary).                         *)
THEOREM EffectsAreBounded == Spec => []EffectsBounded
<1>1. IInv => EffectsBounded
  <2> SUFFICES ASSUME IInv, NEW key \in DOMAIN calls
               PROVE  calls[key] <= 1 + crashes + failures
    BY DEF EffectsBounded
  <2>1. calls[key] <= crashes + failures + Granted(key)
    BY DEF IInv, Executed
  <2>2. Granted(key) \in {0, 1}
    BY DEF Granted
  <2>3. crashes \in Nat /\ failures \in Nat /\ calls[key] \in Nat
    BY DEF IInv, Types
  <2> QED
    BY <2>1, <2>2, <2>3
<1> QED
  BY <1>1, RunInvariant, PTL

-----------------------------------------------------------------------------
(* The history of the store.                                                *)

(* Run q is r at a later time.                                              *)
Later(r, q) ==
  /\ IsPrefix(r.session.messages, q.session.messages)
  /\ r.session.version <= q.session.version
  /\ IsPrefix(r.inbox, q.inbox)
  /\ r.once \subseteq q.once
  /\ \A n \in DOMAIN r.timers :
       /\ r.timers[n] = "fired" => q.timers[n] = "fired"
       /\ r.timers[n] = "pending" => q.timers[n] # "none"

LEMMA PrefixItself ==
  ASSUME NEW S, NEW s \in Seq(S)
  PROVE  IsPrefix(s, s)
<1>1. Len(s) \in Nat
  BY LenProperties
<1> QED
  BY <1>1 DEF IsPrefix

LEMMA PrefixConcat ==
  ASSUME NEW S, NEW s \in Seq(S), NEW t \in Seq(S)
  PROVE  IsPrefix(s, s \o t)
<1> DEFINE u == s \o t
<1>1. /\ Len(s) \in Nat /\ Len(t) \in Nat
      /\ u \in Seq(S) /\ Len(u) = Len(s) + Len(t)
      /\ \A i \in 1 .. Len(s) + Len(t) :
           u[i] = IF i <= Len(s) THEN s[i] ELSE t[i - Len(s)]
  BY ConcatProperties, LenProperties
<1> HIDE DEF u
<1>2. \A i \in 1 .. Len(s) : s[i] \in S /\ u[i] = s[i]
  BY <1>1
<1>3. 1 \in Int /\ Len(s) \in Int
  BY <1>1
<1>4. /\ SubSeq(s, 1, Len(s)) \in Seq(S) /\ SubSeq(u, 1, Len(s)) \in Seq(S)
      /\ Len(SubSeq(s, 1, Len(s))) = Len(SubSeq(u, 1, Len(s)))
      /\ \A i \in 1 .. Len(s) - 1 + 1 : SubSeq(s, 1, Len(s))[i] = s[1 + i - 1]
      /\ \A i \in 1 .. Len(s) - 1 + 1 : SubSeq(u, 1, Len(s))[i] = u[1 + i - 1]
      /\ Len(SubSeq(s, 1, Len(s))) = IF 1 <= Len(s) THEN Len(s) - 1 + 1 ELSE 0
  <2>1. \A i \in 1 .. Len(s) : u[i] \in S
    BY <1>2
  <2> QED
    BY <1>2, <1>3, <2>1, SubSeqProperties
<1>5. SubSeq(s, 1, Len(s)) = SubSeq(u, 1, Len(s))
  <2>1. \A i \in 1 .. Len(SubSeq(s, 1, Len(s))) :
          SubSeq(s, 1, Len(s))[i] = SubSeq(u, 1, Len(s))[i]
    BY <1>1, <1>2, <1>4
  <2> QED
    BY <1>4, <2>1, SeqEqual
<1>6. Len(s) <= Len(u)
  BY <1>1
<1> QED
  BY <1>5, <1>6 DEF IsPrefix, u

LEMMA PrefixAppend ==
  ASSUME NEW S, NEW s \in Seq(S), NEW e \in S
  PROVE  IsPrefix(s, Append(s, e))
<1>1. << e >> \in Seq(S) /\ Append(s, e) = s \o << e >>
  OBVIOUS
<1> QED
  BY <1>1, PrefixConcat

(* A run that differs in fields that are no part of its history.            *)
LEMMA LaterItself ==
  ASSUME NEW r \in Stored, NEW q,
         q.session = r.session, q.inbox = r.inbox, q.once = r.once, q.timers = r.timers
  PROVE  Later(r, q)
<1>1. /\ r.session.messages \in Seq(Message) /\ r.session.version \in Nat
      /\ r.inbox \in Seq(Entries)
  BY StoredFields, SessionFields
<1>2. IsPrefix(r.session.messages, r.session.messages) /\ IsPrefix(r.inbox, r.inbox)
  BY <1>1, PrefixItself
<1> QED
  BY <1>1, <1>2 DEF Later

LEMMA LaterEntry ==
  ASSUME NEW r \in Stored, NEW e \in Entries
  PROVE  Later(r, WithEntry(r, e))
<1> DEFINE q == WithEntry(r, e)
<1>1. /\ q.inbox \in {r.inbox, Append(r.inbox, e)} /\ q.session = r.session
      /\ q.timers = r.timers /\ q.once = r.once
  BY WithEntryTypes
<1> HIDE DEF q
<1>2. /\ r.session.messages \in Seq(Message) /\ r.session.version \in Nat
      /\ r.inbox \in Seq(Entries)
  BY StoredFields, SessionFields
<1>3. IsPrefix(r.session.messages, q.session.messages)
  BY <1>1, <1>2, PrefixItself
<1>4. IsPrefix(r.inbox, q.inbox)
  BY <1>1, <1>2, PrefixItself, PrefixAppend
<1> QED
  BY <1>1, <1>2, <1>3, <1>4 DEF Later, q

LEMMA LaterDelta ==
  ASSUME NEW r \in Stored, NEW s \in Sessions, NEW b \in Baselines
  PROVE  Later(r, WithDelta(r, s, b))
<1> DEFINE q    == WithDelta(r, s, b)
           more == SubSeq(s.messages, b.count + 1, Len(s.messages))
<1>1. /\ q.inbox = r.inbox /\ q.timers = r.timers /\ q.once = r.once
      /\ more \in Seq(Message)
      /\ r.session.version >= s.version => q = r
      /\ r.session.version < s.version =>
           q.session.messages = r.session.messages \o more /\ q.session.version = s.version
  BY WithDeltaTypes
<1> HIDE DEF q, more
<1>2. /\ r.session.messages \in Seq(Message) /\ r.session.version \in Nat
      /\ s.version \in Nat /\ r.inbox \in Seq(Entries)
  BY StoredFields, SessionFields
<1>3. IsPrefix(r.inbox, q.inbox)
  BY <1>1, <1>2, PrefixItself
<1>4. CASE r.session.version >= s.version
  BY <1>1, <1>4, LaterItself DEF q
<1>5. CASE r.session.version < s.version
  <2>1. IsPrefix(r.session.messages, q.session.messages)
    BY <1>1, <1>2, <1>5, PrefixConcat
  <2>2. r.session.version <= q.session.version
    BY <1>1, <1>2, <1>5
  <2> QED
    BY <1>1, <1>3, <2>1, <2>2 DEF Later, q
<1> QED
  BY <1>2, <1>4, <1>5

LEMMA LaterTimer ==
  ASSUME NEW r \in Stored, NEW n \in DOMAIN setup.nodes, NEW state \in TimerStates,
         state # "none", state = "fired" \/ r.timers[n] = "none"
  PROVE  Later(r, WithTimer(r, n, state))
<1> DEFINE q == WithTimer(r, n, state)
<1>1. /\ q.session = r.session /\ q.inbox = r.inbox /\ q.once = r.once
      /\ \A m \in DOMAIN setup.nodes :
           q.timers[m] = IF m = n THEN state ELSE r.timers[m]
  BY WithTimerTypes
<1> HIDE DEF q
<1>2. /\ r.session.messages \in Seq(Message) /\ r.session.version \in Nat
      /\ r.inbox \in Seq(Entries) /\ DOMAIN r.timers = DOMAIN setup.nodes
  BY StoredFields, SessionFields
<1>3. IsPrefix(r.session.messages, q.session.messages) /\ IsPrefix(r.inbox, q.inbox)
  BY <1>1, <1>2, PrefixItself
<1> QED
  BY <1>1, <1>2, <1>3 DEF Later, q

LEMMA LaterMemo ==
  ASSUME NEW r \in Stored, NEW key \in Message
  PROVE  Later(r, WithMemo(r, key))
<1> DEFINE q == WithMemo(r, key)
<1>1. /\ q.session = r.session /\ q.inbox = r.inbox /\ q.timers = r.timers
      /\ q.once = r.once \cup {key}
  BY WithMemoTypes
<1> HIDE DEF q
<1>2. /\ r.session.messages \in Seq(Message) /\ r.session.version \in Nat
      /\ r.inbox \in Seq(Entries)
  BY StoredFields, SessionFields
<1>3. IsPrefix(r.session.messages, q.session.messages) /\ IsPrefix(r.inbox, q.inbox)
  BY <1>1, <1>2, PrefixItself
<1> QED
  BY <1>1, <1>2, <1>3 DEF Later, q

(* A run is created where there is none.                                    *)
LEMMA LaterNew ==
  ASSUME setup \in Setups, NEW r, Blank(r)
  PROVE  Later(r, NewRun("open", NoTimers(setup)))
<1> DEFINE q == NewRun("open", NoTimers(setup))
<1>1. /\ r \in Stored /\ q \in Stored
      /\ q.session = r.session /\ q.inbox = r.inbox /\ q.once = r.once
  BY NewTypes DEF Blank
<1>2. q.timers = NoTimers(setup) /\ r.timers = NoTimers(setup)
  BY DEF NewRun, Blank
<1> HIDE DEF q
<1> QED
  BY <1>1, <1>2, LaterItself DEF q

(* No step takes back what is stored.                                       *)
LEMMA NextLater == IInv /\ [Next]_vars => Later(db, db')
<1> SUFFICES ASSUME IInv, [Next]_vars PROVE Later(db, db')
  OBVIOUS
<1>1. /\ setup \in Setups /\ db \in Stored /\ run \in Stored /\ attempt \in Attempt
      /\ sent \in 0 .. MaxInputs
  BY DEF IInv, Types
<1>2. CASE db' = db
  BY <1>1, <1>2, LaterItself
<1>3. ASSUME NEW n \in DOMAIN setup.nodes, FireTimer(n)
      PROVE  Later(db, db')
  <2>1. db' = db \/ db' = WithTimer(db, n, "fired")
    BY <1>3 DEF FireTimer, Saved, Unsaved
  <2>2. "fired" \in TimerStates
    BY DEF TimerStates
  <2> QED
    BY <1>1, <1>2, <2>1, <2>2, LaterTimer
<1>4. CASE Create
  <2>1. db' = db \/ db' = NewRun("open", NoTimers(setup))
    BY <1>4 DEF Create, Saved, Unsaved
  <2>2. Blank(db)
    BY <1>4 DEF IInv, Born, Create
  <2> QED
    BY <1>1, <1>2, <2>1, <2>2, LaterNew
<1>5. CASE AppendInput
  <2> DEFINE entry == [offset |-> Len(run.inbox), id |-> sent]
  <2>1. db' = db \/ db' = WithEntry(db, entry)
    BY <1>5 DEF AppendInput, Saved, Unsaved
  <2>2. sent > 0
    BY <1>5 DEF IInv, Phases, AppendInput
  <2>3. entry \in Entries
    BY <1>1, <2>2, StoredFields DEF Entries
  <2> HIDE DEF entry
  <2> QED
    BY <1>1, <1>2, <2>1, <2>3, LaterEntry
<1>6. CASE Reopen
  <2> DEFINE new == [db EXCEPT !.status = "open"]
  <2>1. db' = db \/ db' = new
    BY <1>6 DEF Reopen, Saved, Unsaved
  <2>2. /\ new.session = db.session /\ new.inbox = db.inbox /\ new.once = db.once
        /\ new.timers = db.timers
    BY <1>1 DEF Stored, RunsWith
  <2> HIDE DEF new
  <2> QED
    BY <1>1, <1>2, <2>1, <2>2, LaterItself
<1>7. CASE PersistDelta
  <2>1. db' = db \/ db' = WithDelta(db, run.session, Base)
    BY <1>7, DeltaShape DEF DeltaSteps
  <2>2. run.session \in Sessions /\ Base \in Baselines
    BY <1>1, StoredFields, BaseTypes DEF IInv
  <2> QED
    BY <1>1, <1>2, <2>1, <2>2, LaterDelta
<1>8. CASE PersistPatch
  <2>1. db' = db \/ db' = WithPatch(db, run)
    BY <1>8, PatchShape DEF PatchSteps
  <2> QED
    BY <1>1, <1>2, <2>1, WithPatchTypes, LaterItself
<1>9. CASE ExecuteNode
  <2>1. Executes
    BY <1>9, ExecuteShape DEF IInv
  <2>2. CASE Arms
    <3>1. db' = db \/ db' = WithTimer(db, attempt.pos, "pending")
      BY <2>2 DEF Arms, Saved, Unsaved
    <3>2. db.timers[attempt.pos] = "none" /\ attempt.pos \in DOMAIN setup.nodes
      BY <2>2 DEF Arms, IInv, TimersKnown, Current
    <3>3. "pending" \in TimerStates
      BY DEF TimerStates
    <3> QED
      BY <1>1, <1>2, <3>1, <3>2, <3>3, LaterTimer
  <2>3. CASE Remembers
    <3>1. db' = db \/ db' = WithMemo(db, LastInput(attempt.session))
      BY <2>3 DEF Remembers, Saved, Unsaved
    <3>2. LastInput(attempt.session) \in Message
      BY <1>1, EntryFields, KeyTypes
    <3> QED
      BY <1>1, <1>2, <3>1, <3>2, LaterMemo
  <2> QED
    BY <1>2, <2>1, <2>2, <2>3 DEF Executes, Quiet, Settles, Acts
<1> QED
  BY <1>2, <1>3, <1>4, <1>5, <1>6, <1>7, <1>8, <1>9
  DEF Next, Proceed, TimerSweep, FireTimers, WakeUp, EndSweep, Send, Resume, ResumeOrphan,
      ResumeRun, Crash, Restart, vars

(* The history, the inbox, the memos and the timers a store has are never   *)
(* taken back, whatever fails (appendSessionDelta, appendInbox, recordOnce, *)
(* upsertTimer, and the rollback that persists an older state of the run).  *)
THEOREM RunHistoryKept == Spec => HistoryKept
<1>1. IInv /\ [Next]_vars =>
        [/\ IsPrefix(db.session.messages, db'.session.messages)
         /\ db.session.version <= db'.session.version
         /\ IsPrefix(db.inbox, db'.inbox)
         /\ db.once \subseteq db'.once
         /\ \A n \in DOMAIN db.timers :
              /\ db.timers[n] = "fired" => db'.timers[n] = "fired"
              /\ db.timers[n] = "pending" => db'.timers[n] # "none"]_vars
  BY NextLater DEF Later
<1> QED
  BY <1>1, RunInvariant, PTL DEF Spec, HistoryKept

-----------------------------------------------------------------------------
(* The cursor is never ahead.                                               *)

LEMMA KeptUp ==
  ASSUME failures \in Nat, failures' \in Nat, failures <= failures', setup' = setup,
         StoreKeepsUp'
  PROVE  /\ StoreKeepsUp
         /\ failures < failures' => ~ setup.cached
BY DEF StoreKeepsUp

LEMMA CoversMore ==
  ASSUME NEW s, NEW t, NEW inbox, NEW c,
         Covers(s, inbox, c), Elems(s) \subseteq Elems(t)
  PROVE  Covers(t, inbox, c)
BY DEF Covers

(* An input more in the inbox.                                              *)
LEMMA CoversAppended ==
  ASSUME NEW s, NEW inbox \in Seq(Entries), NEW e \in Entries, NEW c \in Nat,
         Covers(s, inbox, c)
  PROVE  Covers(s, Append(inbox, e), c)
<1> DEFINE longer == Append(inbox, e)
<1>1. /\ Len(inbox) \in Nat /\ Len(longer) = Len(inbox) + 1
      /\ \A i \in 1 .. Len(inbox) : longer[i] = inbox[i]
  BY AppendProperties
<1> HIDE DEF longer
<1>2. c <= Len(inbox) /\ \A i \in 1 .. c : inbox[i].id \in Elems(s)
  BY DEF Covers
<1>3. c <= Len(longer)
  BY <1>1, <1>2
<1>4. ASSUME NEW i \in 1 .. c PROVE longer[i].id \in Elems(s)
  <2>1. i \in 1 .. Len(inbox)
    BY <1>1, <1>2
  <2> QED
    BY <1>1, <1>2, <2>1
<1> QED
  BY <1>3, <1>4 DEF Covers, longer

(* An attempt that goes on still has every input it has taken.              *)
LEMMA ContinuesCovers ==
  ASSUME NEW a \in Attempt, NEW b \in Attempt, Continues(a, b),
         Covers(a.session, a.entry.inbox, a.entry.cursor + a.consumed)
  PROVE  Covers(b.session, a.entry.inbox, a.entry.cursor + b.consumed)
<1> DEFINE from == a.entry.cursor + a.consumed
           upto == a.entry.cursor + b.consumed
           n    == Len(a.entry.inbox)
<1>1. /\ a.entry.cursor \in Nat /\ a.consumed \in Nat /\ b.consumed \in Nat
      /\ n \in Nat /\ a.session \in Sessions /\ b.session \in Sessions
  BY EntryFields
<1>2. from \in Nat /\ upto \in Nat /\ (b.consumed = a.consumed => upto = from)
  BY <1>1
<1>3. Elems(a.session) \subseteq Elems(b.session)
  BY <1>1, GrownElems DEF Continues
<1>4. /\ from <= n /\ \A i \in 1 .. from : a.entry.inbox[i].id \in Elems(a.session)
  BY DEF Covers
<1>5. b.consumed # a.consumed => upto <= n
  BY <1>1 DEF Continues
<1>6. \A i \in from + 1 .. upto : a.entry.inbox[i].id \in Elems(b.session)
  BY DEF Continues
<1> HIDE DEF from, upto, n
<1>7. upto <= n
  BY <1>2, <1>4, <1>5
<1>8. ASSUME NEW i \in 1 .. upto PROVE a.entry.inbox[i].id \in Elems(b.session)
  <2>1. i \in 1 .. from \/ i \in from + 1 .. upto
    BY <1>2
  <2> QED
    BY <1>3, <1>4, <1>6, <2>1
<1> QED
  BY <1>7, <1>8 DEF Covers, upto, n

(* What appendSessionDelta stores of a session.                             *)
LEMMA DeltaElems ==
  ASSUME NEW r \in Stored, NEW s \in Sessions, NEW b \in Baselines
  PROVE  LET new == WithDelta(r, s, b).session IN
         /\ new \in Sessions
         /\ Elems(r.session) \subseteq Elems(new)
         /\ r.session.version <= new.version
         /\ Len(r.session.messages) <= Len(new.messages)
         /\ Grown(r.session, s) /\ b.count <= Len(r.session.messages) =>
              /\ Elems(s) \subseteq Elems(new)
              /\ s.version <= new.version
              /\ Len(s.messages) <= Len(new.messages)
              /\ b.count = Len(r.session.messages) => new = s
<1> DEFINE q    == WithDelta(r, s, b)
           new  == q.session
           more == SubSeq(s.messages, b.count + 1, Len(s.messages))
           old  == r.session
           lr   == Len(old.messages)
           ls   == Len(s.messages)
           ln   == Len(new.messages)
           lm   == Len(more)
           c    == b.count
<1>1. /\ q \in Stored /\ more \in Seq(Message)
      /\ lm = IF c < ls THEN ls - c ELSE 0
      /\ \A i \in 1 .. lm : more[i] = s.messages[c + i]
      /\ old.version >= s.version => q = r
  BY WithDeltaTypes
<1>6. old.version < s.version =>
        new.messages = old.messages \o more /\ new.version = s.version
  BY WithDeltaTypes
<1>2. old \in Sessions /\ new \in Sessions
  BY <1>1, StoredFields
<1>3. /\ old.messages \in Seq(Message) /\ lr \in Nat /\ old.version \in Nat
      /\ s.messages \in Seq(Message) /\ ls \in Nat /\ s.version \in Nat
      /\ new.messages \in Seq(Message) /\ ln \in Nat /\ new.version \in Nat
      /\ DOMAIN old.messages = 1 .. lr /\ DOMAIN s.messages = 1 .. ls
      /\ DOMAIN new.messages = 1 .. ln
      /\ c \in Nat /\ lm \in Nat
  BY <1>1, <1>2, SessionFields, LenProperties DEF Baselines
<1>4. CASE old.version >= s.version
  <2>1. new = old
    BY <1>1, <1>4
  <2>2. Grown(old, s) => s = old
    <3> SUFFICES ASSUME Grown(old, s) PROVE s = old
      OBVIOUS
    <3>1. old.version <= s.version /\ (s.version = old.version => s = old)
      BY <1>2, GrownElems
    <3> QED
      BY <1>3, <1>4, <3>1
  <2> HIDE DEF new, old
  <2>3. old.version <= new.version /\ lr <= ln
    BY <1>3, <2>1
  <2> QED
    BY <1>2, <2>1, <2>2, <2>3 DEF new, old
<1>5. CASE old.version < s.version
  <2>1. /\ ln = lr + lm
        /\ \A i \in 1 .. lr + lm :
             new.messages[i] = IF i <= lr THEN old.messages[i] ELSE more[i - lr]
        /\ new.version = s.version
    <3>1. new.messages = old.messages \o more /\ new.version = s.version
      BY <1>5, <1>6
    <3> HIDE DEF new, old, more
    <3>2. /\ Len(old.messages \o more) = Len(old.messages) + Len(more)
          /\ \A i \in 1 .. Len(old.messages) + Len(more) :
               (old.messages \o more)[i] =
                 IF i <= Len(old.messages) THEN old.messages[i]
                 ELSE more[i - Len(old.messages)]
      BY <1>1, <1>3, ConcatProperties
    <3> QED
      BY <3>1, <3>2
  <2> HIDE DEF q, new, more, old, lr, ls, ln, lm, c
  <2>2. Elems(old) \subseteq Elems(new)
    <3> SUFFICES ASSUME NEW j \in 1 .. lr PROVE old.messages[j] \in Elems(new)
      BY <1>3 DEF Elems
    <3>1. j \in 1 .. lr + lm /\ j <= lr /\ j \in 1 .. ln
      BY <1>3, <2>1
    <3>2. new.messages[j] = old.messages[j]
      BY <2>1, <3>1
    <3> QED
      BY <1>3, <3>1, <3>2 DEF Elems
  <2>3. old.version <= new.version /\ lr <= ln
    BY <1>3, <1>5, <2>1
  <2>4. ASSUME Grown(old, s), c <= lr
        PROVE  /\ Elems(s) \subseteq Elems(new) /\ s.version <= new.version
               /\ ls <= ln
               /\ c = lr => new = s
    <3>1. /\ lr <= ls
          /\ \A j \in 1 .. lr : s.messages[j] = old.messages[j]
      BY <2>4 DEF Grown, lr, ls
    <3>2. ls - c <= lm /\ (c = lr => lm = ls - lr)
      BY <1>1, <1>3, <2>4, <3>1
    <3>3. ls <= ln /\ (c = lr => ln = ls)
      BY <1>3, <2>1, <2>4, <3>2
    <3>4. Elems(s) \subseteq Elems(new)
      <4> SUFFICES ASSUME NEW j \in 1 .. ls PROVE s.messages[j] \in Elems(new)
        BY <1>3 DEF Elems
      <4>1. CASE j <= lr
        <5>1. j \in 1 .. lr /\ j \in DOMAIN old.messages
          BY <1>3, <4>1
        <5>2. s.messages[j] = old.messages[j]
          BY <3>1, <5>1
        <5>3. old.messages[j] \in Elems(old)
          BY <5>1 DEF Elems
        <5> QED
          BY <2>2, <5>2, <5>3
      <4>2. CASE j > lr
        <5> DEFINE k == j - c
        <5>1. k \in 1 .. lm /\ c + k = j
          BY <1>1, <1>3, <2>4, <3>1, <4>2
        <5>2. more[k] = s.messages[j]
          BY <1>1, <5>1
        <5> DEFINE m == lr + k
        <5>3. m \in 1 .. lr + lm /\ ~ m <= lr /\ m - lr = k /\ m \in 1 .. ln
          BY <1>3, <2>1, <5>1
        <5> HIDE DEF m, k
        <5>4. new.messages[m] = more[k]
          BY <2>1, <5>3
        <5> QED
          BY <1>3, <5>2, <5>3, <5>4 DEF Elems
      <4> QED
        BY <1>3, <4>1, <4>2
    <3>5. ASSUME c = lr PROVE new = s
      <4>1. \A j \in 1 .. ls : new.messages[j] = s.messages[j]
        <5> SUFFICES ASSUME NEW j \in 1 .. ls PROVE new.messages[j] = s.messages[j]
          OBVIOUS
        <5>1. CASE j <= lr
          BY <1>3, <2>1, <3>1, <3>2, <3>3, <3>5, <5>1
        <5>2. CASE j > lr
          <6>1. /\ j - lr \in 1 .. lm /\ c + (j - lr) = j /\ j \in 1 .. lr + lm
                /\ ~ j <= lr
            BY <1>3, <3>2, <3>5, <5>2
          <6> QED
            BY <1>1, <2>1, <6>1
        <5> QED
          BY <1>3, <5>1, <5>2
      <4>2. new.messages = s.messages
        BY <1>3, <3>3, <3>5, <4>1, SeqEqual DEF ls, ln
      <4>3. new.version = s.version
        BY <2>1
      <4>4. /\ new = [version |-> new.version, messages |-> new.messages]
            /\ s = [version |-> s.version, messages |-> s.messages]
        BY <1>2 DEF Sessions
      <4> QED
        BY <4>2, <4>3, <4>4
    <3> QED
      BY <1>3, <2>1, <3>3, <3>4, <3>5
  <2> QED
    BY <1>2, <2>2, <2>3, <2>4 DEF q, new, old, lr, ls, ln, c
<1> QED
  BY <1>3, <1>4, <1>5

(* A step that leaves the sessions, the inbox and the cursor of the store.  *)
SameStored ==
  /\ db'.session = db.session /\ db'.inbox = db.inbox /\ db'.cursor = db.cursor
  /\ baseline' = baseline

LEMMA SameStoredCovered ==
  ASSUME StoredCovered, SameStored, pc' = "append" => run'.inbox = db'.inbox
  PROVE  StoredCovered'
BY DEF StoredCovered, SameStored, Covers, Elems

LEMMA InitCInv == Init => CInv
<1> SUFFICES ASSUME Init PROVE StoredCovered /\ AttemptCovered /\ Synced
  BY DEF CInv, Covered
<1>1. /\ setup \in Setups /\ db = NewRun("absent", NoTimers(setup)) /\ run = db
      /\ pc = "idle" /\ after = "none" /\ baseline = NoBaseline
  BY DEF Init
<1>2. /\ db \in Stored /\ db.session = EmptySession /\ db.cursor = 0
      /\ db.inbox = << >> /\ Len(db.inbox) = 0 /\ DOMAIN db.inbox = {}
      /\ Len(db.session.messages) = 0 /\ db.session.version = 0
  <2>1. /\ db \in Stored /\ db.session = EmptySession /\ db.cursor = 0
        /\ db.inbox = << >> /\ Len(db.inbox) = 0
    BY <1>1, NewTypes
  <2> QED
    BY <2>1, EmptyTypes, StoredFields
<1>3. Covers(db.session, db.inbox, db.cursor)
  BY <1>2 DEF Covers
<1>4. StoredCovered
  BY <1>1, <1>2, <1>3 DEF StoredCovered, NoBaseline
<1>5. AttemptCovered
  BY <1>1 DEF AttemptCovered, Nodes, Persisting
<1>6. Synced
  BY <1>1, <1>3 DEF Synced
<1> QED
  BY <1>4, <1>5, <1>6

(* What store.get returns: the stored run, or one that agrees with it.      *)
LEMMA LoadedCovered ==
  ASSUME IInv, StoreKeepsUp, Covered, ~ Recorded
  PROVE  /\ Loaded \in Stored
         /\ Loaded.inbox = db.inbox /\ Loaded.session = db.session
         /\ Covers(Loaded.session, db.inbox, Loaded.cursor)
BY LoadedTypes DEF Loaded, Covered, StoredCovered, Synced

LEMMA StartsCInv ==
  ASSUME IInv, CInv, Send \/ Resume \/ ResumeOrphan
  PROVE  CInv'
<1> SUFFICES ASSUME StoreKeepsUp' PROVE Covered'
  BY DEF CInv
<1>1. /\ pc = "idle" /\ run' = Loaded /\ pc' \in {"append", "create", "resume"}
      /\ setup' = setup /\ db' = db /\ baseline' = baseline /\ failures' = failures
      /\ after' = after
  BY DEF Send, Resume, ResumeOrphan, Ready, faults
<1>2. StoreKeepsUp /\ Covered /\ ~ Recorded
  BY <1>1 DEF StoreKeepsUp, CInv, Recorded
<1>3. /\ Loaded.inbox = db.inbox /\ Loaded.session = db.session
      /\ Covers(Loaded.session, db.inbox, Loaded.cursor)
  BY <1>2, LoadedCovered
<1>4. StoredCovered'
  BY <1>1, <1>2, <1>3, SameStoredCovered DEF Covered, SameStored
<1>5. AttemptCovered'
  BY <1>1 DEF AttemptCovered, Nodes, Persisting
<1>6. Synced'
  BY <1>1, <1>2, <1>3 DEF Covered, Synced
<1> QED
  BY <1>4, <1>5, <1>6 DEF Covered

LEMMA FireTimerCInv ==
  ASSUME IInv, CInv, NEW n \in DOMAIN setup.nodes, FireTimer(n)
  PROVE  CInv'
<1> SUFFICES ASSUME StoreKeepsUp' PROVE Covered'
  BY DEF CInv
<1> DEFINE new == WithTimer(db, n, "fired")
<1>1. /\ pc = "idle" /\ run' = WithTimer(Loaded, n, "fired")
      /\ pc' \in {"idle", "resume"} /\ db' \in {db, new}
      /\ failures' = failures \/ failures' = failures + 1
      /\ setup' = setup /\ baseline' = baseline /\ after' = after
  BY DEF FireTimer, Ready, Saved, Unsaved
<1>2. failures \in Nat /\ failures' \in Nat /\ failures <= failures'
      /\ db \in Stored
  BY <1>1 DEF IInv, Types
<1>3. StoreKeepsUp /\ Covered /\ ~ Recorded
  BY <1>1, <1>2, KeptUp DEF CInv, Recorded
<1>4. /\ Loaded \in Stored /\ Loaded.inbox = db.inbox /\ Loaded.session = db.session
      /\ Covers(Loaded.session, db.inbox, Loaded.cursor)
  BY <1>3, LoadedCovered
<1>5. "fired" \in TimerStates
  BY DEF TimerStates
<1>6. /\ run'.inbox = db.inbox /\ run'.session = db.session /\ run'.cursor = Loaded.cursor
  BY <1>1, <1>4, <1>5, WithTimerTypes
<1>7. new.session = db.session /\ new.inbox = db.inbox /\ new.cursor = db.cursor
  BY <1>2, <1>5, WithTimerTypes
<1> HIDE DEF new
<1>8. SameStored
  BY <1>1, <1>7 DEF SameStored
<1>9. StoredCovered'
  BY <1>1, <1>3, <1>8, SameStoredCovered DEF Covered
<1>10. AttemptCovered'
  BY <1>1 DEF AttemptCovered, Nodes, Persisting
<1>11. Synced'
  BY <1>1, <1>3, <1>4, <1>6, <1>8 DEF Covered, Synced, SameStored
<1> QED
  BY <1>9, <1>10, <1>11 DEF Covered

LEMMA CreateCInv ==
  ASSUME IInv, CInv, Create
  PROVE  CInv'
<1> SUFFICES ASSUME StoreKeepsUp' PROVE Covered'
  BY DEF CInv
<1> DEFINE new == NewRun("open", NoTimers(setup))
<1>1. /\ pc = "create"
      /\ \/ /\ db' = new /\ failures' = failures /\ run' = new
            /\ baseline' = BaselineOf(new.session) /\ pc' = "append"
         \/ /\ db' \in (IF setup.cached THEN {db} ELSE {db, new})
            /\ failures' = failures + 1
            /\ run' = run /\ baseline' = baseline /\ pc' = "idle"
      /\ setup' = setup
  BY DEF Create, Saved, Unsaved
<1>2. /\ setup \in Setups /\ failures \in Nat /\ failures' \in Nat /\ Blank(db)
      /\ failures <= failures' /\ (pc' = "idle" => failures < failures')
  BY <1>1 DEF IInv, Types, Born
<1>3. /\ StoreKeepsUp /\ StoredCovered
      /\ pc' = "idle" => ~ setup.cached
  BY <1>1, <1>2, KeptUp DEF CInv, Covered
<1>4. /\ new \in Stored /\ new.session = EmptySession /\ new.cursor = 0
      /\ new.inbox = << >> /\ Len(new.inbox) = 0
  BY <1>2, NewTypes
<1>5. db.session = EmptySession /\ db.cursor = 0 /\ db.inbox = << >>
  BY <1>2, NewTypes DEF Blank
<1> HIDE DEF new
<1>6. db'.session = EmptySession /\ db'.cursor = 0 /\ db'.inbox = << >>
  BY <1>1, <1>4, <1>5
<1>7. /\ Covers(db'.session, db'.inbox, db'.cursor)
      /\ DOMAIN db'.inbox = {}
  BY <1>4, <1>6, StoredFields DEF Covers
<1>8. /\ baseline'.version <= db'.session.version
      /\ baseline'.count <= Len(db'.session.messages)
  <2>1. CASE baseline' = baseline
    BY <1>3, <1>5, <1>6, <2>1 DEF StoredCovered
  <2>2. CASE baseline' = BaselineOf(new.session)
    BY <1>4, <1>6, <2>2, EmptyTypes, BaselineTypes
  <2> QED
    BY <1>1, <2>1, <2>2
<1>9. StoredCovered'
  BY <1>1, <1>7, <1>8 DEF StoredCovered
<1>10. AttemptCovered'
  BY <1>1 DEF AttemptCovered, Nodes, Persisting
<1>11. Synced'
  BY <1>1, <1>3, <1>7 DEF Synced
<1> QED
  BY <1>9, <1>10, <1>11 DEF Covered

(* The entry goes to the end of both inboxes: no offset is taken.           *)
LEMMA AppendCInv ==
  ASSUME IInv, CInv, AppendInput
  PROVE  CInv'
<1> SUFFICES ASSUME StoreKeepsUp' PROVE Covered'
  BY DEF CInv
<1> DEFINE entry  == [offset |-> Len(run.inbox), id |-> sent]
           pushed == [run EXCEPT !.inbox = Append(@, entry)]
           new    == WithEntry(db, entry)
           longer == Append(db.inbox, entry)
<1>1. /\ pc = "append"
      /\ \/ /\ db' = new /\ failures' = failures
            /\ run' = [pushed EXCEPT !.status = "open"]
            /\ pc' \in {"reopen", "resume"}
         \/ /\ db' \in {db, new} /\ failures' = failures + 1
            /\ run' = pushed /\ pc' = "idle"
      /\ setup' = setup /\ baseline' = baseline /\ after' = after
  BY DEF AppendInput, Saved, Unsaved
<1>2. /\ failures \in Nat /\ failures' \in Nat /\ failures <= failures'
      /\ pc' = "idle" => failures < failures'
      /\ db \in Stored /\ run \in Stored /\ sent \in 0 .. MaxInputs /\ sent > 0
  BY <1>1 DEF IInv, Types, Phases
<1>3. /\ StoreKeepsUp /\ Covered /\ (pc' = "idle" => ~ setup.cached)
  BY <1>1, <1>2, KeptUp DEF CInv
<1>4. entry \in Entries
  BY <1>2, StoredFields DEF Entries
<1>5. run.inbox = db.inbox
  BY <1>1, <1>3 DEF Covered, StoredCovered
<1>6. /\ db.inbox \in Seq(Entries) /\ Len(db.inbox) \in Nat
      /\ DOMAIN db.inbox = 1 .. Len(db.inbox) /\ db.cursor \in Nat
      /\ run.cursor \in Nat
  BY <1>2, StoredFields
<1>7. entry.offset = Len(db.inbox)
  BY <1>5
<1> HIDE DEF entry
<1>8. new = [db EXCEPT !.inbox = longer]
  <2>1. \A i \in DOMAIN db.inbox : db.inbox[i].offset # entry.offset
    BY <1>3, <1>6, <1>7 DEF Covered, StoredCovered
  <2> QED
    BY <2>1 DEF WithEntry
<1>9. /\ new.inbox = longer /\ new.session = db.session /\ new.cursor = db.cursor
  BY <1>2, <1>8 DEF Stored, RunsWith
<1>10. /\ run'.inbox = longer /\ run'.session = run.session /\ run'.cursor = run.cursor
  <2>1. pushed.inbox = longer /\ pushed.session = run.session /\ pushed.cursor = run.cursor
        /\ [pushed EXCEPT !.status = "open"].inbox = longer
        /\ [pushed EXCEPT !.status = "open"].session = run.session
        /\ [pushed EXCEPT !.status = "open"].cursor = run.cursor
    BY <1>2, <1>5 DEF Stored, RunsWith
  <2> HIDE DEF pushed, longer
  <2> QED
    BY <1>1, <2>1
<1>11. /\ longer \in Seq(Entries) /\ DOMAIN longer = 1 .. Len(db.inbox) + 1
       /\ \A i \in 1 .. Len(db.inbox) : longer[i] = db.inbox[i]
       /\ longer[Len(db.inbox) + 1] = entry
  <2>1. /\ longer \in Seq(Entries) /\ Len(longer) = Len(db.inbox) + 1
        /\ \A i \in 1 .. Len(db.inbox) : longer[i] = db.inbox[i]
        /\ longer[Len(db.inbox) + 1] = entry
    BY <1>4, <1>6, AppendProperties
  <2> QED
    BY <2>1, LenProperties
<1>12. Covers(db.session, longer, db.cursor)
  BY <1>3, <1>4, <1>6, CoversAppended DEF Covered, StoredCovered
<1>13. \A i \in DOMAIN longer : longer[i].offset = i - 1
  <2> SUFFICES ASSUME NEW i \in 1 .. Len(db.inbox) + 1 PROVE longer[i].offset = i - 1
    BY <1>11
  <2>1. CASE i \in 1 .. Len(db.inbox)
    BY <1>3, <1>6, <1>11, <2>1 DEF Covered, StoredCovered
  <2>2. CASE i = Len(db.inbox) + 1
    BY <1>6, <1>7, <1>11, <2>2
  <2> QED
    BY <1>6, <2>1, <2>2
<1> HIDE DEF new, pushed, longer
<1>14. /\ db'.session = db.session /\ db'.cursor = db.cursor
       /\ db'.inbox \in {db.inbox, longer}
       /\ pc' # "idle" => db'.inbox = longer
  BY <1>1, <1>9
<1>15. StoredCovered'
  <2>1. Covers(db'.session, db'.inbox, db'.cursor)
    BY <1>3, <1>12, <1>14 DEF Covered, StoredCovered
  <2>2. \A i \in DOMAIN db'.inbox : db'.inbox[i].offset = i - 1
    BY <1>3, <1>13, <1>14 DEF Covered, StoredCovered
  <2> QED
    BY <1>1, <1>3, <1>14, <2>1, <2>2 DEF Covered, StoredCovered
<1>16. AttemptCovered'
  BY <1>1 DEF AttemptCovered, Nodes, Persisting
<1>17. Synced'
  <2> SUFFICES ASSUME setup.cached PROVE Synced'
    BY <1>1 DEF Synced
  <2>1. pc' # "idle"
    BY <1>3
  <2>2. /\ run.session = db.session /\ baseline \in {NoBaseline, BaselineOf(db.session)}
        /\ Covers(run.session, run.inbox, run.cursor)
    BY <1>1, <1>3 DEF Covered, Synced, Recorded
  <2>3. Covers(run.session, longer, run.cursor)
    BY <1>4, <1>5, <1>6, <2>2, CoversAppended DEF longer
  <2> QED
    BY <1>1, <1>10, <1>14, <2>1, <2>2, <2>3 DEF Synced
<1> QED
  BY <1>15, <1>16, <1>17 DEF Covered

LEMMA ReopenCInv ==
  ASSUME IInv, CInv, Reopen
  PROVE  CInv'
<1> SUFFICES ASSUME StoreKeepsUp' PROVE Covered'
  BY DEF CInv
<1> DEFINE new == [db EXCEPT !.status = "open"]
<1>1. /\ pc = "reopen" /\ pc' \in {"idle", "resume"} /\ db' \in {db, new}
      /\ failures' = failures \/ failures' = failures + 1
      /\ setup' = setup /\ run' = run /\ baseline' = baseline /\ after' = after
  BY DEF Reopen, Saved, Unsaved
<1>2. failures \in Nat /\ failures' \in Nat /\ failures <= failures' /\ db \in Stored
  BY <1>1 DEF IInv, Types
<1>3. Covered /\ ~ Recorded
  BY <1>1, <1>2, KeptUp DEF CInv, Recorded
<1>4. new.session = db.session /\ new.inbox = db.inbox /\ new.cursor = db.cursor
  BY <1>2 DEF Stored, RunsWith
<1> HIDE DEF new
<1>5. SameStored
  BY <1>1, <1>4 DEF SameStored
<1>6. StoredCovered'
  BY <1>1, <1>3, <1>5, SameStoredCovered DEF Covered
<1>7. AttemptCovered'
  BY <1>1 DEF AttemptCovered, Nodes, Persisting
<1>8. Synced'
  BY <1>1, <1>3, <1>5 DEF Covered, Synced, SameStored
<1> QED
  BY <1>6, <1>7, <1>8 DEF Covered

(* An attempt begins from what the store has.                               *)
LEMMA ResumeRunCInv ==
  ASSUME IInv, CInv, ResumeRun
  PROVE  CInv'
<1> SUFFICES ASSUME StoreKeepsUp' PROVE Covered'
  BY DEF CInv
<1>1. /\ pc = "resume" /\ run' = Loaded
      /\ \/ pc' = "idle"
         \/ pc' = "delta" /\ after' = "execute" /\ attempt' = Begin(Loaded)
      /\ setup' = setup /\ db' = db /\ baseline' = baseline /\ failures' = failures
  BY DEF ResumeRun, EndOperation, faults
<1>2. StoreKeepsUp /\ Covered /\ ~ Recorded /\ setup \in Setups /\ db \in Stored
  BY <1>1 DEF StoreKeepsUp, CInv, Recorded, IInv, Types
<1>3. /\ Loaded \in Stored /\ Loaded.inbox = db.inbox /\ Loaded.session = db.session
      /\ Covers(Loaded.session, db.inbox, Loaded.cursor)
  BY <1>2, LoadedCovered
<1>4. StoredCovered'
  BY <1>1, <1>2, SameStoredCovered DEF Covered, SameStored
<1>5. Synced'
  BY <1>1, <1>2, <1>3 DEF Covered, Synced
<1>6. ASSUME pc' = "delta" PROVE AttemptCovered'
  <2>1. /\ after' = "execute"
        /\ attempt'.entry = Loaded /\ attempt'.session = Loaded.session
        /\ attempt'.consumed = 0
    BY <1>1, <1>2, <1>3, <1>6, BeginTypes
  <2>2. Loaded.cursor \in Nat /\ db.session \in Sessions
    BY <1>2, <1>3, StoredFields
  <2>3. Grown(db.session, db.session) /\ Len(db.session.messages) \in Nat
        /\ db.session.version \in Nat
    BY <2>2, SessionFields
  <2>4. Behind(db.session)
    BY <2>3 DEF Behind
  <2>5. Loaded.cursor + 0 = Loaded.cursor
    BY <2>2
  <2>6. Behind(attempt.entry.session)'
    BY <1>1, <1>3, <2>1, <2>4 DEF Behind
  <2> QED
    BY <1>1, <1>3, <1>6, <2>1, <2>3, <2>5, <2>6 DEF AttemptCovered, Walking, Recorded
<1>7. ASSUME pc' = "idle" PROVE AttemptCovered'
  BY <1>7 DEF AttemptCovered, Nodes, Persisting
<1> QED
  BY <1>1, <1>4, <1>5, <1>6, <1>7 DEF Covered

LEMMA CrashCInv ==
  ASSUME IInv, CInv, Crash
  PROVE  CInv'
<1> SUFFICES ASSUME StoreKeepsUp' PROVE Covered'
  BY DEF CInv
<1>1. /\ run' = db /\ baseline' = NoBaseline /\ pc' = "idle" /\ after' = "none"
      /\ setup' = setup /\ db' = db /\ failures' = failures
  BY DEF Crash, EndOperation
<1>2. Covered /\ db.session \in Sessions
  BY <1>1, StoredFields DEF StoreKeepsUp, CInv, IInv, Types
<1>3. StoredCovered'
  <2>1. db.session.version \in Nat /\ Len(db.session.messages) \in Nat
    BY <1>2, SessionFields
  <2> QED
    BY <1>1, <1>2, <2>1 DEF Covered, StoredCovered, NoBaseline
<1>4. AttemptCovered'
  BY <1>1 DEF AttemptCovered, Nodes, Persisting
<1>5. Synced'
  BY <1>1, <1>2 DEF Covered, StoredCovered, Synced
<1> QED
  BY <1>3, <1>4, <1>5 DEF Covered

(* The conditions on an attempt, as facts about its parts.                  *)
LEMMA AttemptFacts ==
  ASSUME IInv, Covered, pc \in Nodes \cup Persisting
  PROVE  /\ attempt.entry.inbox = db.inbox /\ run.inbox = db.inbox
         /\ Covers(attempt.entry.session, db.inbox, attempt.entry.cursor)
         /\ Covers(attempt.session, db.inbox, attempt.entry.cursor + attempt.consumed)
         /\ Covers(run.session, db.inbox, run.cursor)
         /\ Grown(attempt.entry.session, attempt.session)
         /\ Behind(attempt.entry.session)
         /\ Walking \/ Recorded => db.session = attempt.entry.session
         /\ Walking \/ (pc = "delta" /\ after = "rollback") =>
              run.session = attempt.entry.session
         /\ Recorded => run.session = attempt.session
         /\ pc = "patch" => Elems(run.session) \subseteq Elems(db.session)
         /\ ~ (pc = "delta" /\ after = "execute") => baseline # NoBaseline
BY DEF Covered, AttemptCovered

(* Whatever persistRun may add to the stored session, the attempt stays     *)
(* covered.                                                                 *)
LEMMA FollowsCovered ==
  ASSUME IInv, IInv', Covered, StoreKeepsUp', pc \in Persisting, Follows,
         setup' = setup, db'.inbox = db.inbox,
         Elems(db.session) \subseteq Elems(db'.session),
         db.session.version <= db'.session.version,
         Len(db.session.messages) <= Len(db'.session.messages),
         after = "execute" => db'.session = db.session,
         baseline' # NoBaseline
  PROVE  AttemptCovered'
<1>1. /\ attempt.entry.inbox = db.inbox /\ run.inbox = db.inbox
      /\ Covers(attempt.entry.session, db.inbox, attempt.entry.cursor)
      /\ Covers(attempt.session, db.inbox, attempt.entry.cursor + attempt.consumed)
      /\ Covers(run.session, db.inbox, run.cursor)
      /\ Grown(attempt.entry.session, attempt.session)
      /\ Behind(attempt.entry.session)
      /\ Walking => db.session = attempt.entry.session /\ run.session = attempt.entry.session
  BY AttemptFacts
<1>2. run \in Stored /\ attempt \in Attempt /\ db \in Stored /\ db' \in Stored'
  BY DEF IInv, Types
<1>3. /\ db.session \in Sessions /\ attempt.entry.session \in Sessions
      /\ db'.session \in Sessions
  BY <1>2, SetsKept, StoredFields, EntryFields
<1>4. /\ Elems(attempt.entry.session) \subseteq Elems(db'.session)
      /\ attempt.entry.session.version <= db'.session.version
      /\ Len(attempt.entry.session.messages) <= Len(db'.session.messages)
  <2>1. /\ attempt.entry.session.version \in Nat /\ db.session.version \in Nat
        /\ db'.session.version \in Nat
        /\ Len(attempt.entry.session.messages) \in Nat
        /\ Len(db.session.messages) \in Nat /\ Len(db'.session.messages) \in Nat
    BY <1>3, SessionFields
  <2>2. \A x, y, z \in Nat : x <= y /\ y <= z => x <= z
    OBVIOUS
  <2> QED
    BY <1>1, <2>1, <2>2 DEF Behind
<1>5. CASE /\ after = "execute" /\ pc' \in {"node", "loop", "end"}
           /\ after' = after /\ attempt' = attempt /\ run' = run
  <2>1. Walking
    BY <1>5 DEF Walking
  <2>2. Behind(attempt.entry.session)'
    BY <1>4, <1>5 DEF Behind
  <2> QED
    BY <1>1, <1>5, <2>1, <2>2 DEF AttemptCovered, Walking, Recorded, Covers, Elems
<1>6. CASE pc' = "idle"
  BY <1>6 DEF AttemptCovered, Nodes, Persisting
<1>7. CASE /\ pc' = "delta" /\ after' = "rollback" /\ attempt' = attempt
           /\ run' = RolledBack(run, attempt.entry)
  <2>1. /\ run'.session = attempt.entry.session /\ run'.cursor = attempt.entry.cursor
        /\ run'.inbox = run.inbox
    BY <1>2, <1>7, RolledBackTypes
  <2>2. Behind(attempt.entry.session)'
    BY <1>4, <1>7 DEF Behind
  <2> QED
    BY <1>1, <1>7, <2>1, <2>2 DEF AttemptCovered, Walking, Recorded, Nodes
<1> QED
  BY <1>5, <1>6, <1>7 DEF Follows

(* The delta covers what the run object says.                               *)
LEMMA PersistDeltaCInv ==
  ASSUME IInv, IInv', CInv, PersistDelta
  PROVE  CInv'
<1> SUFFICES ASSUME StoreKeepsUp' PROVE Covered'
  BY DEF CInv
<1> DEFINE new == WithDelta(db, run.session, Base)
           e   == attempt.entry
<1>1. /\ DeltaSteps /\ pc = "delta" /\ setup' = setup
  BY DeltaShape DEF DeltaSteps
<1>2. /\ db \in Stored /\ run \in Stored /\ attempt \in Attempt /\ setup \in Setups
      /\ failures \in Nat /\ failures' \in Nat
      /\ after \in {"execute", "done", "suspended", "rollback"}
      /\ Base \in Baselines /\ Base # NoBaseline
  BY <1>1, BaseTypes DEF IInv, Types, Phases, Nodes, Persisting
<1>3. /\ run.session \in Sessions /\ db.session \in Sessions /\ e.session \in Sessions
      /\ attempt.session \in Sessions
      /\ BaselineOf(run.session) \in Baselines /\ BaselineOf(run.session) # NoBaseline
      /\ BaselineOf(run.session).version = run.session.version
      /\ BaselineOf(run.session).count = Len(run.session.messages)
  <2>1. run.session \in Sessions /\ db.session \in Sessions
    BY <1>2, StoredFields
  <2>2. e.session \in Sessions /\ attempt.session \in Sessions
    BY <1>2, EntryFields
  <2> QED
    BY <2>1, <2>2, BaselineTypes
<1>4. /\ new \in Stored /\ new.inbox = db.inbox /\ new.cursor = db.cursor
      /\ new.session \in Sessions
      /\ db.session.version >= run.session.version => new = db
  BY <1>2, <1>3, WithDeltaTypes, StoredFields
<1>5. /\ failures <= failures'
      /\ \/ db' = db \/ db' = new
      /\ \/ pc' = "patch" /\ run' = run /\ after' = after /\ attempt' = attempt
         \/ Follows /\ ~ setup.cached
  <2>1. failures <= failures' /\ (failures < failures' => ~ setup.cached)
    <3>1. failures' = failures \/ failures' = failures + 1
      BY <1>1 DEF DeltaSteps
    <3>2. failures <= failures'
      BY <1>2, <3>1
    <3> QED
      BY <1>1, <1>2, <3>2, KeptUp
  <2>2. failures' = failures + 1 => failures < failures'
    BY <1>2
  <2> QED
    BY <1>1, <2>1, <2>2 DEF DeltaSteps
<1>6. StoreKeepsUp /\ Covered
  BY <1>1, <1>2, <1>5, KeptUp DEF CInv
<1>7. /\ e.inbox = db.inbox /\ run.inbox = db.inbox
      /\ Covers(e.session, db.inbox, e.cursor)
      /\ Covers(attempt.session, db.inbox, e.cursor + attempt.consumed)
      /\ Covers(run.session, db.inbox, run.cursor)
      /\ Grown(e.session, attempt.session)
      /\ Behind(e.session)
      /\ after \in {"execute", "done", "suspended"} => db.session = e.session
      /\ after \in {"execute", "rollback"} => run.session = e.session
      /\ after \in {"done", "suspended"} => run.session = attempt.session
      /\ after # "execute" => baseline # NoBaseline
  BY <1>1, <1>6, AttemptFacts DEF Walking, Recorded, Persisting
<1>8. Base.version <= db.session.version /\ Base.count <= Len(db.session.messages)
  <2>1. CASE baseline = NoBaseline
    <3>1. run.session = db.session
      BY <1>2, <1>7, <2>1
    <3>2. db.session.version \in Nat /\ Len(db.session.messages) \in Nat
      BY <1>3, SessionFields
    <3> QED
      BY <1>3, <2>1, <3>1, <3>2 DEF Base
  <2>2. CASE baseline # NoBaseline
    BY <1>6, <2>2 DEF Base, Covered, StoredCovered
  <2> QED
    BY <2>1, <2>2
<1> HIDE DEF e
(* What is stored only grows, and not at all for a session it has.          *)
<1>9. /\ Elems(db.session) \subseteq Elems(new.session)
      /\ db.session.version <= new.session.version
      /\ Len(db.session.messages) <= Len(new.session.messages)
      /\ Grown(db.session, run.session) =>
           /\ Elems(run.session) \subseteq Elems(new.session)
           /\ run.session.version <= new.session.version
           /\ Len(run.session.messages) <= Len(new.session.messages)
           /\ Base.count = Len(db.session.messages) => new.session = run.session
  BY <1>2, <1>3, <1>8, DeltaElems
<1>10. after \in {"execute", "done", "suspended"} => Grown(db.session, run.session)
  BY <1>3, <1>7, SessionFields
<1>11. after \in {"execute", "rollback"} => db' = db
  <2> SUFFICES ASSUME after \in {"execute", "rollback"} PROVE db' = db
    OBVIOUS
  <2>1. run.session.version <= db.session.version
    BY <1>7 DEF Behind
  <2>2. db.session.version \in Nat /\ run.session.version \in Nat
    BY <1>3, SessionFields
  <2> QED
    BY <1>4, <1>5, <2>1, <2>2
<1>12. /\ db'.inbox = db.inbox /\ db'.cursor = db.cursor
       /\ Elems(db.session) \subseteq Elems(db'.session)
       /\ db.session.version <= db'.session.version
       /\ Len(db.session.messages) <= Len(db'.session.messages)
       /\ db'.session \in Sessions
  <2>1. db.session.version \in Nat /\ Len(db.session.messages) \in Nat
    BY <1>3, SessionFields
  <2> HIDE DEF new
  <2> QED
    BY <1>3, <1>4, <1>5, <1>9, <2>1
(* After the write, the store has the session of the run object.            *)
<1>13. pc' = "patch" =>
         /\ Elems(run.session) \subseteq Elems(db'.session)
         /\ run.session.version <= db'.session.version
         /\ Len(run.session.messages) <= Len(db'.session.messages)
         /\ setup.cached => db'.session = run.session
  <2> SUFFICES ASSUME pc' = "patch"
               PROVE  /\ Elems(run.session) \subseteq Elems(db'.session)
                      /\ run.session.version <= db'.session.version
                      /\ Len(run.session.messages) <= Len(db'.session.messages)
                      /\ setup.cached => db'.session = run.session
    OBVIOUS
  <2>1. CASE after \in {"execute", "rollback"}
    <3>1. /\ Elems(run.session) \subseteq Elems(db.session)
          /\ run.session.version <= db.session.version
          /\ Len(run.session.messages) <= Len(db.session.messages)
      BY <1>7, <2>1 DEF Behind
    <3>2. setup.cached => db.session = run.session
      BY <1>6, <2>1 DEF Covered, Synced, Recorded
    <3> QED
      BY <1>11, <2>1, <3>1, <3>2
  <2>2. CASE after \in {"done", "suspended"} /\ run.session.version = Base.version
    <3>1. run.session.version <= db.session.version
      BY <1>8, <2>2
    <3>2. Grown(db.session, run.session)
      BY <1>10, <2>2
    <3>3. /\ db.session.version <= run.session.version
          /\ run.session.version = db.session.version => run.session = db.session
      BY <1>3, <3>2, GrownElems
    <3>4. db.session.version \in Nat /\ run.session.version \in Nat
          /\ Len(db.session.messages) \in Nat
      BY <1>3, SessionFields
    <3>5. run.session = db.session
      BY <3>1, <3>3, <3>4
    <3>6. db' = db
      BY <1>4, <1>5, <3>4, <3>5
    <3> QED
      BY <3>4, <3>5, <3>6
  <2>3. CASE after \in {"done", "suspended"} /\ run.session.version # Base.version
    <3>1. db' = new
      BY <1>1, <2>3 DEF DeltaSteps, Follows, Nodes
    <3>2. setup.cached => Base.count = Len(db.session.messages)
      <4> SUFFICES ASSUME setup.cached PROVE Base.count = Len(db.session.messages)
        OBVIOUS
      <4>1. baseline = BaselineOf(db.session)
        BY <1>6, <1>7, <2>3 DEF Covered, Synced
      <4>2. Base = BaselineOf(db.session)
        BY <1>7, <2>3, <4>1 DEF Base
      <4> QED
        BY <1>3, <4>2, BaselineTypes
    <3> QED
      BY <1>9, <1>10, <2>3, <3>1, <3>2
  <2> QED
    BY <1>2, <2>1, <2>2, <2>3
<1>14. /\ baseline' \in {Base, BaselineOf(run.session)}
       /\ baseline' # Base => pc' = "patch"
  BY <1>1 DEF DeltaSteps
<1> HIDE DEF new
<1>15. StoredCovered'
  <2>1. Covers(db'.session, db'.inbox, db'.cursor)
    BY <1>6, <1>12, CoversMore DEF Covered, StoredCovered
  <2>2. \A i \in DOMAIN db'.inbox : db'.inbox[i].offset = i - 1
    BY <1>6, <1>12 DEF Covered, StoredCovered
  <2>3. pc' # "append"
    BY <1>5 DEF Follows
  <2>4. baseline'.version <= db'.session.version /\ baseline'.count <= Len(db'.session.messages)
    <3>1. CASE baseline' = Base
      <4>1. /\ Base.version \in Int /\ Base.count \in Nat
            /\ db.session.version \in Int /\ Len(db.session.messages) \in Nat
            /\ db'.session.version \in Int /\ Len(db'.session.messages) \in Nat
        BY <1>2, <1>3, <1>12, SessionFields DEF Baselines
      <4>2. \A x, y, z \in Int : x <= y /\ y <= z => x <= z
        OBVIOUS
      <4> QED
        BY <1>8, <1>12, <3>1, <4>1, <4>2
    <3>2. CASE baseline' # Base
      BY <1>3, <1>13, <1>14, <3>2
    <3> QED
      BY <3>1, <3>2
  <2> QED
    BY <2>1, <2>2, <2>3, <2>4 DEF StoredCovered
<1>16. baseline' # NoBaseline
  BY <1>2, <1>3, <1>14
<1>17. AttemptCovered'
  <2>1. CASE pc' = "patch" /\ run' = run /\ after' = after /\ attempt' = attempt
    <3>1. Behind(attempt.entry.session)'
      <4>1. /\ e.session.version \in Nat /\ db.session.version \in Nat
            /\ db'.session.version \in Nat /\ Len(e.session.messages) \in Nat
            /\ Len(db.session.messages) \in Nat /\ Len(db'.session.messages) \in Nat
        BY <1>3, <1>12, SessionFields
      <4>2. \A x, y, z \in Nat : x <= y /\ y <= z => x <= z
        OBVIOUS
      <4>3. /\ Elems(e.session) \subseteq Elems(db'.session)
            /\ e.session.version <= db'.session.version
            /\ Len(e.session.messages) <= Len(db'.session.messages)
        BY <1>7, <1>12, <4>1, <4>2 DEF Behind
      <4> QED
        BY <2>1, <4>3 DEF Behind, e
    <3>2. ~ Recorded' /\ (Walking' => after = "execute")
      BY <2>1 DEF Recorded, Walking, Nodes
    <3>3. after = "execute" => db'.session = e.session /\ run.session = e.session
      BY <1>7, <1>11
    <3> QED
      BY <1>7, <1>12, <1>13, <1>16, <2>1, <3>1, <3>2, <3>3 DEF AttemptCovered, e
  <2>2. CASE Follows
    <3>1. after = "execute" => db'.session = db.session
      BY <1>11
    <3>2. pc \in Persisting
      BY <1>1 DEF Persisting
    <3> QED
      BY <1>1, <1>6, <1>12, <1>16, <2>2, <3>1, <3>2, FollowsCovered
  <2> QED
    BY <1>5, <2>1, <2>2
<1>18. Synced'
  <2> SUFFICES ASSUME setup.cached PROVE Synced'
    BY <1>1 DEF Synced
  <2>1. pc' = "patch" /\ run' = run
    BY <1>5
  <2>2. db'.session = run.session
    BY <1>13, <2>1
  <2>3. baseline' = BaselineOf(run.session)
    <3>1. CASE run.session.version # Base.version
      BY <1>1, <1>5, <3>1 DEF DeltaSteps, Follows, Nodes
    <3>2. CASE run.session.version = Base.version
      <4>1. db' = db /\ baseline' = Base
        BY <1>1, <3>2 DEF DeltaSteps
      <4>2. baseline \in {NoBaseline, BaselineOf(db.session)}
        BY <1>6 DEF Covered, Synced
      <4> QED
        BY <2>2, <4>1, <4>2 DEF Base
    <3> QED
      BY <3>1, <3>2
  <2>4. Covers(run.session, db'.inbox, run.cursor) /\ run.inbox = db'.inbox
    BY <1>7, <1>12
  <2> QED
    BY <2>1, <2>2, <2>3, <2>4 DEF Synced
<1> QED
  BY <1>15, <1>17, <1>18 DEF Covered

(* The cursor follows the session.                                          *)
LEMMA PersistPatchCInv ==
  ASSUME IInv, IInv', CInv, PersistPatch
  PROVE  CInv'
<1> SUFFICES ASSUME StoreKeepsUp' PROVE Covered'
  BY DEF CInv
<1> DEFINE new == WithPatch(db, run)
<1>1. /\ PatchSteps /\ pc = "patch" /\ Follows /\ setup' = setup /\ baseline' = baseline
      /\ db' \in {db, new}
      /\ (failures' = failures /\ run' = run) \/ failures' = failures + 1
  BY PatchShape DEF PatchSteps
<1>2. /\ db \in Stored /\ run \in Stored
      /\ failures \in Nat /\ failures' \in Nat
  BY DEF IInv, Types
<1>3. failures <= failures' /\ (failures' = failures + 1 => failures < failures')
  BY <1>1, <1>2
<1>4. StoreKeepsUp /\ Covered /\ (setup.cached => run' = run)
  BY <1>1, <1>2, <1>3, KeptUp DEF CInv
<1>5. /\ run.inbox = db.inbox /\ Covers(run.session, db.inbox, run.cursor)
      /\ Elems(run.session) \subseteq Elems(db.session)
      /\ baseline # NoBaseline
  BY <1>1, <1>4, AttemptFacts DEF Persisting
<1>6. /\ new.session = db.session /\ new.inbox = db.inbox /\ new.cursor = run.cursor
  BY <1>2, WithPatchTypes
<1> HIDE DEF new
<1>7. /\ db'.session = db.session /\ db'.inbox = db.inbox
      /\ db'.cursor \in {db.cursor, run.cursor}
  BY <1>1, <1>6
<1>8. StoredCovered'
  <2>1. Covers(db.session, db.inbox, db.cursor) /\ Covers(db.session, db.inbox, run.cursor)
    BY <1>4, <1>5, CoversMore DEF Covered, StoredCovered
  <2>2. Covers(db'.session, db'.inbox, db'.cursor)
    BY <1>7, <2>1
  <2>3. pc' # "append"
    BY <1>1 DEF Follows
  <2> QED
    BY <1>1, <1>4, <1>7, <2>2, <2>3 DEF Covered, StoredCovered
<1>9. AttemptCovered'
  <2>1. db.session \in Sessions
    BY <1>2, StoredFields
  <2>2. /\ db.session.version \in Nat /\ Len(db.session.messages) \in Nat
    BY <2>1, SessionFields
  <2>3. pc \in Persisting
    BY <1>1 DEF Persisting
  <2>4. /\ Elems(db.session) \subseteq Elems(db'.session)
        /\ db.session.version <= db'.session.version
        /\ Len(db.session.messages) <= Len(db'.session.messages)
    BY <1>7, <2>2
  <2> QED
    BY <1>1, <1>4, <1>5, <1>7, <2>3, <2>4, FollowsCovered
<1>10. Synced'
  <2> SUFFICES ASSUME setup.cached PROVE Synced'
    BY <1>1 DEF Synced
  <2>1. run.session = db.session /\ baseline \in {NoBaseline, BaselineOf(db.session)}
    BY <1>1, <1>4 DEF Covered, Synced, Recorded
  <2> QED
    BY <1>1, <1>4, <1>5, <1>7, <2>1 DEF Synced
<1> QED
  BY <1>8, <1>9, <1>10 DEF Covered

(* The steps of an execution leave the store's session and cursor alone.    *)
LEMMA ExecutesSameStored ==
  ASSUME IInv, Executes
  PROVE  /\ SameStored /\ setup' = setup /\ pc \in Nodes /\ after = "execute"
         /\ pc' # "append"
         /\ failures' \in Nat /\ failures <= failures'
         /\ \/ Advances /\ after' = after
               /\ run'.session = run.session /\ run'.inbox = run.inbox
               /\ run'.cursor = run.cursor
            \/ /\ pc' = "memo" /\ after' = after /\ attempt' = attempt
               /\ run'.session = run.session /\ run'.inbox = run.inbox
               /\ run'.cursor = run.cursor
            \/ \E r : Leaves(r) /\ r.inbox = run.inbox
<1>1. /\ db \in Stored /\ run \in Stored /\ attempt \in Attempt
      /\ failures \in 0 .. MaxFailures
      /\ setup' = setup /\ baseline' = baseline
  BY DEF IInv, Types, Executes
<1>2. pc \in Nodes /\ after = "execute"
  BY DEF IInv, Phases, Executes, Quiet, Settles, Arms, Acts, Remembers, Nodes, Persisting
<1>3. LastInput(attempt.session) \in Message /\ "pending" \in TimerStates
  BY <1>1, EntryFields, KeyTypes DEF TimerStates
<1>4. failures + 1 \in Nat /\ failures <= failures + 1 /\ failures \in Nat
  BY <1>1
<1>5. CASE Quiet
  BY <1>1, <1>2, <1>4, <1>5 DEF Quiet, SameStored, Advances
<1>6. CASE Settles
  BY <1>1, <1>2, <1>4, <1>6 DEF Settles, SameStored, Leaves
<1>7. CASE Arms
  <2> DEFINE new   == WithTimer(db, attempt.pos, "pending")
             armed == WithTimer(run, attempt.pos, "pending")
  <2>1. new.session = db.session /\ new.inbox = db.inbox /\ new.cursor = db.cursor
    BY <1>1, <1>3, <1>7, WithTimerTypes DEF Arms
  <2>2. armed.inbox = run.inbox
    BY <1>1, <1>3, <1>7, WithTimerTypes DEF Arms
  <2>3. /\ db' \in {db, new} /\ failures' \in {failures, failures + 1}
        /\ Leaves(armed)
    BY <1>7 DEF Arms, Saved, Unsaved
  <2> HIDE DEF new, armed
  <2>4. SameStored
    BY <1>1, <2>1, <2>3 DEF SameStored
  <2>5. pc' # "append"
    BY <2>3 DEF Leaves
  <2> QED
    BY <1>1, <1>2, <1>4, <2>2, <2>3, <2>4, <2>5
<1>8. CASE Acts
  <2> DEFINE r == WithMemo(run, LastInput(attempt.session))
  <2>1. r.session = run.session /\ r.inbox = run.inbox /\ r.cursor = run.cursor
    BY <1>1, <1>3, WithMemoTypes
  <2>2. /\ run' = r /\ db' = db /\ failures' = failures /\ pc' = "memo"
        /\ after' = after /\ attempt' = attempt
    BY <1>8 DEF Acts
  <2> HIDE DEF r
  <2> QED
    BY <1>1, <1>2, <1>4, <2>1, <2>2 DEF SameStored
<1>9. CASE Remembers
  <2> DEFINE new == WithMemo(db, LastInput(attempt.session))
  <2>1. new.session = db.session /\ new.inbox = db.inbox /\ new.cursor = db.cursor
    BY <1>1, <1>3, WithMemoTypes
  <2>2. /\ db' \in {db, new} /\ failures' \in {failures, failures + 1}
        /\ \/ Advances /\ run' = run /\ after' = after
           \/ Leaves(run)
    BY <1>9 DEF Remembers, Saved, Unsaved
  <2> HIDE DEF new
  <2>3. SameStored
    BY <1>1, <2>1, <2>2 DEF SameStored
  <2>4. pc' # "append"
    BY <2>2 DEF Leaves, Advances
  <2> QED
    BY <1>1, <1>2, <1>4, <2>2, <2>3, <2>4
<1> QED
  BY <1>5, <1>6, <1>7, <1>8, <1>9 DEF Executes

LEMMA ExecutesCInv ==
  ASSUME IInv, IInv', CInv, Executes
  PROVE  CInv'
<1> SUFFICES ASSUME StoreKeepsUp' PROVE Covered'
  BY DEF CInv
<1> DEFINE e == attempt.entry
<1>1. /\ SameStored /\ setup' = setup /\ pc \in Nodes /\ after = "execute"
      /\ pc' # "append" /\ failures' \in Nat /\ failures <= failures'
  BY ExecutesSameStored
<1>2. /\ attempt \in Attempt /\ failures \in Nat
      /\ attempt.session \in Sessions /\ e.session \in Sessions
      /\ e.cursor \in Nat /\ attempt.consumed \in Nat
  BY EntryFields DEF IInv, Types
<1>3. StoreKeepsUp /\ Covered
  BY <1>1, <1>2, KeptUp DEF CInv
<1>4. /\ e.inbox = db.inbox /\ run.inbox = db.inbox
      /\ Covers(e.session, db.inbox, e.cursor)
      /\ Covers(attempt.session, db.inbox, e.cursor + attempt.consumed)
      /\ Covers(run.session, db.inbox, run.cursor)
      /\ Grown(e.session, attempt.session)
      /\ Behind(e.session)
      /\ db.session = e.session /\ run.session = e.session
      /\ baseline # NoBaseline
  BY <1>1, <1>3, AttemptFacts DEF Walking, Nodes
<1>5. db'.session = db.session /\ db'.inbox = db.inbox /\ baseline' = baseline
  BY <1>1 DEF SameStored
<1>6. StoredCovered'
  BY <1>1, <1>3, SameStoredCovered DEF Covered
<1>7. setup.cached => baseline \in {NoBaseline, BaselineOf(db.session)}
  BY <1>3 DEF Covered, Synced
<1> HIDE DEF e
<1>8. ASSUME Advances, after' = after, run'.session = run.session,
             run'.inbox = run.inbox, run'.cursor = run.cursor
      PROVE  Covered'
  <2>1. /\ attempt' \in Attempt /\ Continues(attempt, attempt') /\ attempt'.entry = e
        /\ Grown(attempt.session, attempt'.session) /\ pc' \in Nodes /\ pc' # "patch"
    BY <1>8 DEF Advances, Continues, e, Nodes
  <2>2. attempt'.session \in Sessions
    BY <2>1, EntryFields
  <2>3. Grown(e.session, attempt'.session)
    BY <1>2, <1>4, <2>1, <2>2, GrownTwice
  <2>4. Covers(attempt'.session, db.inbox, e.cursor + attempt'.consumed)
    BY <1>2, <1>4, <2>1, ContinuesCovers DEF e
  <2>5. Behind(attempt.entry.session)'
    BY <1>4, <1>5, <2>1 DEF Behind
  <2>6. ~ Recorded' /\ Walking'
    BY <2>1 DEF Recorded, Walking, Nodes
  <2>7. AttemptCovered'
    BY <1>4, <1>5, <1>8, <2>1, <2>3, <2>4, <2>5, <2>6 DEF AttemptCovered, Nodes
  <2>8. Synced'
    BY <1>1, <1>4, <1>5, <1>7, <1>8 DEF Synced
  <2> QED
    BY <1>6, <2>7, <2>8 DEF Covered
<1>9. ASSUME pc' = "memo", after' = after, attempt' = attempt,
             run'.session = run.session, run'.inbox = run.inbox, run'.cursor = run.cursor
      PROVE  Covered'
  <2>1. Behind(attempt.entry.session)'
    BY <1>4, <1>5, <1>9 DEF Behind, e
  <2>2. ~ Recorded' /\ Walking'
    BY <1>9 DEF Recorded, Walking, Nodes
  <2>3. AttemptCovered'
    BY <1>4, <1>5, <1>9, <2>1, <2>2 DEF AttemptCovered, Nodes, e
  <2>4. Synced'
    BY <1>1, <1>4, <1>5, <1>7, <1>9 DEF Synced
  <2> QED
    BY <1>6, <2>3, <2>4 DEF Covered
<1>10. ASSUME NEW r, Leaves(r), r.inbox = run.inbox
       PROVE  Covered'
  <2>1. /\ pc' = "delta" /\ attempt' = attempt /\ run'.inbox = run.inbox
        /\ \/ /\ after' = "rollback" /\ run'.session = e.session /\ run'.cursor = e.cursor
           \/ /\ after' \in {"done", "suspended"} /\ run'.session = attempt.session
              /\ run'.cursor = e.cursor + attempt.consumed
    BY <1>10 DEF Leaves, e
  <2>2. Behind(attempt.entry.session)'
    BY <1>4, <1>5, <2>1 DEF Behind, e
  <2>3. ~ Walking' /\ (Recorded' <=> after' \in {"done", "suspended"})
    BY <2>1 DEF Walking, Recorded, Nodes
  <2>4. Covers(run'.session, db.inbox, run'.cursor)
    BY <1>4, <2>1
  <2>5. AttemptCovered'
    BY <1>4, <1>5, <2>1, <2>2, <2>3, <2>4 DEF AttemptCovered, e
  <2>6. Synced'
    BY <1>1, <1>4, <1>5, <1>7, <2>1, <2>3, <2>4 DEF Synced
  <2> QED
    BY <1>6, <2>5, <2>6 DEF Covered
<1> QED
  BY <1>8, <1>9, <1>10, ExecutesSameStored

LEMMA SameCInv ==
  ASSUME CInv, Restart \/ UNCHANGED vars
  PROVE  CInv'
<1>1. /\ setup' = setup /\ db' = db /\ run' = run /\ baseline' = baseline
      /\ pc' = pc /\ after' = after /\ attempt' = attempt /\ failures' = failures
  BY DEF Restart, vars, faults
<1> QED
  BY <1>1 DEF CInv, StoreKeepsUp, Covered, StoredCovered, AttemptCovered, Synced,
              Behind, Walking, Recorded

LEMMA SweepCInv ==
  ASSUME IInv, CInv, WakeUp \/ EndSweep
  PROVE  CInv'
<1>1. StoreKeepsUp' <=> StoreKeepsUp
  BY SweepShape DEF StoreKeepsUp
<1> QED
  BY <1>1, SweepShape
  DEF CInv, Covered, StoredCovered, AttemptCovered, Synced, Behind, Walking, Recorded

LEMMA NextCInv == IInv /\ IInv' /\ CInv /\ [Next]_vars => CInv'
<1> SUFFICES ASSUME IInv, IInv', CInv, [Next]_vars PROVE CInv'
  OBVIOUS
<1>1. CASE Send \/ Resume \/ ResumeOrphan
  BY <1>1, StartsCInv
<1>2. CASE TimerSweep
  BY <1>2, FireTimerCInv, SweepCInv DEF TimerSweep, FireTimers
<1>3. CASE Create
  BY <1>3, CreateCInv
<1>4. CASE AppendInput
  BY <1>4, AppendCInv
<1>5. CASE Reopen
  BY <1>5, ReopenCInv
<1>6. CASE ResumeRun
  BY <1>6, ResumeRunCInv
<1>7. CASE PersistDelta
  BY <1>7, PersistDeltaCInv
<1>8. CASE PersistPatch
  BY <1>8, PersistPatchCInv
<1>9. CASE ExecuteNode
  BY <1>9, ExecuteShape, ExecutesCInv DEF IInv
<1>10. CASE Crash
  BY <1>10, CrashCInv
<1>11. CASE Restart \/ UNCHANGED vars
  BY <1>11, SameCInv
<1> QED
  BY <1>1, <1>2, <1>3, <1>4, <1>5, <1>6, <1>7, <1>8, <1>9, <1>10, <1>11
  DEF Next, Proceed

THEOREM CursorInvariant == Spec => []CInv
<1>1. Spec => []IInv
  BY RunInvariant
<1>2. IInv /\ IInv' /\ CInv /\ [Next]_vars => CInv'
  BY NextCInv
<1> QED
  BY <1>1, <1>2, InitCInv, PTL DEF Spec

(* As long as the store keeps up with the run object, each input the stored *)
(* cursor has passed is a message of the stored session: persistRun writes  *)
(* the delta before the cursor, and a rollback or a resumption never leaves *)
(* a cursor ahead of what it wrote.                                         *)
THEOREM CursorIsNeverAhead == Spec => []CursorNeverAhead
<1>1. CInv => CursorNeverAhead
  BY DEF CInv, Covered, StoredCovered, Covers, Elems, CursorNeverAhead
<1> QED
  BY <1>1, CursorInvariant, PTL

-----------------------------------------------------------------------------
(* Each input once.                                                         *)

LEMMA ExactEmpty == Exact(EmptySession, << >>, 0)
<1>1. << >> \in Seq(Message) /\ Len(<< >>) = 0 /\ << >> \in Seq(Entries)
  BY EmptySeq
<1>2. Delivered(EmptySession) = << >>
  BY <1>1, EmptyTypes, DeliveredInputs, InputsStep
<1>3. Ids(SubSeq(<< >>, 1, 0)) = << >>
  <2>1. SubSeq(<< >>, 1, 0) = << >>
    BY SubSeqEmpty
  <2> QED
    BY <1>1, <2>1 DEF Ids
<1> QED
  BY <1>1, <1>2, <1>3 DEF Exact

LEMMA ExactAppended ==
  ASSUME NEW s, NEW inbox \in Seq(Entries), NEW e \in Entries, NEW c \in Nat,
         Exact(s, inbox, c)
  PROVE  Exact(s, Append(inbox, e), c)
<1>1. Len(inbox) \in Nat /\ Len(Append(inbox, e)) = Len(inbox) + 1
  BY LenProperties, AppendProperties
<1>2. c \in 0 .. Len(inbox) /\ c <= Len(inbox) + 1
  BY <1>1 DEF Exact
<1>3. Ids(SubSeq(Append(inbox, e), 1, c)) = Ids(SubSeq(inbox, 1, c))
  BY <1>2, SliceAppended
<1> QED
  BY <1>1, <1>2, <1>3 DEF Exact

(* An attempt that goes on has delivered what it has taken, once.           *)
LEMMA ContinuesExact ==
  ASSUME NEW a \in Attempt, NEW b \in Attempt, Continues(a, b),
         Exact(a.session, a.entry.inbox, a.entry.cursor + a.consumed)
  PROVE  Exact(b.session, a.entry.inbox, a.entry.cursor + b.consumed)
<1> DEFINE inbox == a.entry.inbox
           from  == a.entry.cursor + a.consumed
           upto  == a.entry.cursor + b.consumed
<1>1. /\ inbox \in Seq(Entries) /\ Len(inbox) \in Nat /\ a.entry.cursor \in Nat
      /\ a.consumed \in Nat /\ b.consumed \in Nat
  BY EntryFields
<1>2. /\ from <= Len(inbox) /\ Delivered(a.session) = Ids(SubSeq(inbox, 1, from))
  BY DEF Exact
<1>3. /\ a.consumed <= b.consumed /\ (b.consumed > a.consumed => upto <= Len(inbox))
      /\ Delivered(b.session) =
           Delivered(a.session) \o Ids(SubSeq(inbox, from + 1, upto))
  BY DEF Continues
<1>4. from \in Nat /\ upto \in Nat /\ from <= upto /\ upto <= Len(inbox)
  <2>1. \A c, m, n \in Nat : m <= n => c + m \in Nat /\ c + n \in Nat /\ c + m <= c + n
    OBVIOUS
  <2>2. from \in Nat /\ upto \in Nat /\ from <= upto
    BY <1>1, <1>3, <2>1
  <2>3. a.consumed = b.consumed => upto = from
    OBVIOUS
  <2> QED
    BY <1>1, <1>2, <1>3, <2>2, <2>3
<1> HIDE DEF inbox, from, upto
<1>5. Ids(SubSeq(inbox, 1, from)) \o Ids(SubSeq(inbox, from + 1, upto))
        = Ids(SubSeq(inbox, 1, upto))
  BY <1>1, <1>4, SlicesJoin
<1> QED
  BY <1>2, <1>3, <1>4, <1>5 DEF Exact, inbox, upto

(* A step that leaves the system calm was taken in a calm system.           *)
LEMMA CalmBefore ==
  ASSUME IInv, CInv, EInv, Calm', crashes' \in {crashes, crashes + 1},
         failures' \in {failures, failures + 1}
  PROVE  /\ Covered /\ StoredExact /\ AttemptExact
         /\ crashes' = crashes /\ failures' = failures /\ failures' # failures + 1
<1>1. crashes \in Nat /\ failures \in Nat
  BY DEF IInv, Types
<1>2. \A x, y \in Nat : x + y = 0 => x = 0 /\ y = 0
  OBVIOUS
<1>3. \A x \in Nat : x + 1 \in Nat /\ x + 1 # 0
  OBVIOUS
<1>4. crashes' = 0 /\ failures' = 0
  BY <1>1, <1>2, <1>3 DEF Calm
<1>5. /\ crashes = 0 /\ failures = 0
      /\ crashes' = crashes /\ failures' = failures /\ failures' # failures + 1
  BY <1>1, <1>3, <1>4
<1> QED
  BY <1>5 DEF CInv, EInv, Calm, StoreKeepsUp

LEMMA InitEInv == Init => EInv
<1> SUFFICES ASSUME Init PROVE StoredExact /\ AttemptExact
  BY DEF EInv
<1>1. /\ setup \in Setups /\ db = NewRun("absent", NoTimers(setup)) /\ run = db
      /\ pc = "idle" /\ baseline = NoBaseline
  BY DEF Init
<1>2. db.session = EmptySession /\ db.cursor = 0 /\ db.inbox = << >>
  BY <1>1, NewTypes
<1> QED
  BY <1>1, <1>2, ExactEmpty DEF StoredExact, AttemptExact, Nodes, Persisting

(* Steps outside an attempt.                                                *)
LEMMA StartsEInv ==
  ASSUME IInv, CInv, EInv, Send \/ Resume \/ ResumeOrphan
  PROVE  EInv'
<1> SUFFICES ASSUME Calm' PROVE StoredExact' /\ AttemptExact'
  BY DEF EInv
<1>1. /\ pc = "idle" /\ run' = Loaded /\ pc' \in {"append", "create", "resume"}
      /\ setup' = setup /\ db' = db /\ baseline' = baseline
      /\ failures' = failures /\ crashes' = crashes
  BY DEF Send, Resume, ResumeOrphan, Ready, faults
<1>2. StoredExact
  BY <1>1, CalmBefore
<1>3. setup.cached => run' = run
  BY <1>1 DEF Loaded
<1> QED
  BY <1>1, <1>2, <1>3 DEF StoredExact, AttemptExact, Exact, Nodes, Persisting

LEMMA FireTimerEInv ==
  ASSUME IInv, CInv, EInv, NEW n \in DOMAIN setup.nodes, FireTimer(n)
  PROVE  EInv'
<1> SUFFICES ASSUME Calm' PROVE StoredExact' /\ AttemptExact'
  BY DEF EInv
<1> DEFINE new == WithTimer(db, n, "fired")
<1>1. /\ pc = "idle" /\ run' = WithTimer(Loaded, n, "fired")
      /\ pc' \in {"idle", "resume"} /\ db' \in {db, new}
      /\ failures' \in {failures, failures + 1} /\ crashes' = crashes
      /\ setup' = setup /\ baseline' = baseline
  BY DEF FireTimer, Ready, Saved, Unsaved
<1>2. StoredExact
  BY <1>1, CalmBefore
<1>3. "fired" \in TimerStates /\ db \in Stored /\ Loaded \in Stored
  BY LoadedTypes DEF TimerStates, IInv, Types
<1>4. run'.cursor = Loaded.cursor
  BY <1>1, <1>3, WithTimerTypes
<1>5. new.session = db.session /\ new.inbox = db.inbox /\ new.cursor = db.cursor
  BY <1>3, WithTimerTypes
<1> HIDE DEF new
<1>6. db'.session = db.session /\ db'.inbox = db.inbox /\ db'.cursor = db.cursor
  BY <1>1, <1>5
<1>7. setup.cached => run'.cursor = run.cursor
  BY <1>4 DEF Loaded
<1> QED
  BY <1>1, <1>2, <1>6, <1>7 DEF StoredExact, AttemptExact, Exact, Nodes, Persisting

LEMMA CreateEInv ==
  ASSUME IInv, CInv, EInv, Create
  PROVE  EInv'
<1> SUFFICES ASSUME Calm' PROVE StoredExact' /\ AttemptExact'
  BY DEF EInv
<1> DEFINE new == NewRun("open", NoTimers(setup))
<1>1. /\ failures' \in {failures, failures + 1} /\ crashes' = crashes
      /\ setup' = setup /\ setup \in Setups
  BY DEF Create, Saved, Unsaved, IInv, Types
<1>2. failures' # failures + 1
  BY <1>1, CalmBefore
<1>3. db' = new /\ run' = new /\ baseline' = BaselineOf(new.session) /\ pc' = "append"
  BY <1>2 DEF Create, Saved, Unsaved
<1>4. new.session = EmptySession /\ new.cursor = 0 /\ new.inbox = << >>
  BY <1>1, NewTypes
<1> HIDE DEF new
<1> QED
  BY <1>3, <1>4, ExactEmpty DEF StoredExact, AttemptExact, Exact, Nodes, Persisting

LEMMA AppendEInv ==
  ASSUME IInv, CInv, EInv, AppendInput
  PROVE  EInv'
<1> SUFFICES ASSUME Calm' PROVE StoredExact' /\ AttemptExact'
  BY DEF EInv
<1> DEFINE entry  == [offset |-> Len(run.inbox), id |-> sent]
           pushed == [run EXCEPT !.inbox = Append(@, entry)]
           new    == WithEntry(db, entry)
<1>1. /\ pc = "append" /\ pc' \in {"reopen", "resume", "idle"}
      /\ db' \in {db, new} /\ run' \in {pushed, [pushed EXCEPT !.status = "open"]}
      /\ failures' \in {failures, failures + 1} /\ crashes' = crashes
      /\ setup' = setup /\ baseline' = baseline
  BY DEF AppendInput, Saved, Unsaved
<1>2. StoredExact
  BY <1>1, CalmBefore
<1>3. db \in Stored /\ run \in Stored /\ sent \in 0 .. MaxInputs /\ sent > 0
  BY <1>1 DEF IInv, Types, Phases
<1>4. entry \in Entries
  BY <1>3, StoredFields DEF Entries
<1>5. db.inbox \in Seq(Entries) /\ db.cursor \in Nat
  BY <1>3, StoredFields
<1>6. run'.cursor = run.cursor
  <2> HIDE DEF entry
  <2>1. /\ pushed.cursor = run.cursor
        /\ [pushed EXCEPT !.status = "open"].cursor = run.cursor
    BY <1>3 DEF Stored, RunsWith
  <2> HIDE DEF pushed
  <2> QED
    BY <1>1, <2>1
<1> HIDE DEF entry, pushed
<1>7. /\ new.inbox \in {db.inbox, Append(db.inbox, entry)}
      /\ new.session = db.session /\ new.cursor = db.cursor
  BY <1>3, <1>4, WithEntryTypes
<1> HIDE DEF new
<1>8. /\ db'.inbox \in {db.inbox, Append(db.inbox, entry)}
      /\ db'.session = db.session /\ db'.cursor = db.cursor
  BY <1>1, <1>7
<1>9. Exact(db.session, db.inbox, db.cursor)
  BY <1>1, <1>2 DEF StoredExact
<1>10. Exact(db.session, Append(db.inbox, entry), db.cursor)
  BY <1>4, <1>5, <1>9, ExactAppended
<1>11. Exact(db'.session, db'.inbox, db'.cursor)
  BY <1>8, <1>9, <1>10
<1> QED
  BY <1>1, <1>2, <1>6, <1>8, <1>11 DEF StoredExact, AttemptExact, Nodes, Persisting

LEMMA ReopenEInv ==
  ASSUME IInv, CInv, EInv, Reopen
  PROVE  EInv'
<1> SUFFICES ASSUME Calm' PROVE StoredExact' /\ AttemptExact'
  BY DEF EInv
<1> DEFINE new == [db EXCEPT !.status = "open"]
<1>1. /\ pc = "reopen" /\ pc' \in {"idle", "resume"} /\ db' \in {db, new}
      /\ failures' \in {failures, failures + 1} /\ crashes' = crashes
      /\ setup' = setup /\ run' = run /\ baseline' = baseline
  BY DEF Reopen, Saved, Unsaved
<1>2. StoredExact
  BY <1>1, CalmBefore
<1>3. db \in Stored
  BY DEF IInv, Types
<1>4. new.session = db.session /\ new.inbox = db.inbox /\ new.cursor = db.cursor
  BY <1>3 DEF Stored, RunsWith
<1> HIDE DEF new
<1>5. db'.session = db.session /\ db'.inbox = db.inbox /\ db'.cursor = db.cursor
  BY <1>1, <1>4
<1> QED
  BY <1>1, <1>2, <1>5 DEF StoredExact, AttemptExact, Exact, Nodes, Persisting

(* An attempt begins with what is stored.                                   *)
LEMMA ResumeRunEInv ==
  ASSUME IInv, CInv, EInv, ResumeRun
  PROVE  EInv'
<1> SUFFICES ASSUME Calm' PROVE StoredExact' /\ AttemptExact'
  BY DEF EInv
<1>1. /\ pc = "resume" /\ run' = Loaded
      /\ \/ pc' = "idle"
         \/ pc' = "delta" /\ after' = "execute" /\ attempt' = Begin(Loaded)
      /\ setup' = setup /\ db' = db /\ baseline' = baseline
      /\ failures' = failures /\ crashes' = crashes
  BY DEF ResumeRun, EndOperation, faults
<1>2. Covered /\ StoredExact
  BY <1>1, CalmBefore
<1>3. ~ Recorded /\ failures \in Nat /\ crashes \in Nat
  BY <1>1 DEF Recorded, IInv, Types
<1>4. StoreKeepsUp
  BY <1>1, <1>3 DEF Calm, StoreKeepsUp
<1>5. Loaded \in Stored /\ Loaded.inbox = db.inbox /\ Loaded.session = db.session
  BY <1>2, <1>3, <1>4, LoadedCovered
<1>6. Loaded.cursor = db.cursor /\ (setup.cached => run' = run)
  BY <1>1, <1>2 DEF StoredExact, Loaded, Nodes, Persisting
<1>7. Exact(db.session, db.inbox, db.cursor)
  BY <1>1, <1>2 DEF StoredExact
<1>8. StoredExact'
  BY <1>1, <1>2, <1>6, <1>7 DEF StoredExact, Exact
<1>9. ASSUME pc' = "delta" PROVE AttemptExact'
  <2>1. /\ after' = "execute"
        /\ attempt'.entry = Loaded /\ attempt'.session = Loaded.session
        /\ attempt'.consumed = 0
    BY <1>1, <1>5, <1>9, BeginTypes DEF IInv, Types
  <2>2. Loaded.cursor + 0 = Loaded.cursor
    BY <1>5, StoredFields
  <2>3. /\ Exact(attempt'.entry.session, db'.inbox, attempt'.entry.cursor)
        /\ Exact(attempt'.session, db'.inbox, attempt'.entry.cursor + attempt'.consumed)
        /\ Exact(run'.session, db'.inbox, run'.cursor)
    BY <1>1, <1>5, <1>6, <1>7, <2>1, <2>2
  <2> QED
    BY <2>1, <2>3 DEF AttemptExact
<1>10. ASSUME pc' = "idle" PROVE AttemptExact'
  BY <1>10 DEF AttemptExact, Nodes, Persisting
<1> QED
  BY <1>1, <1>8, <1>9, <1>10

(* The conditions on an attempt, as facts about its parts.                  *)
LEMMA AttemptExactly ==
  ASSUME AttemptExact, pc \in Nodes \cup Persisting
  PROVE  /\ Exact(attempt.entry.session, db.inbox, attempt.entry.cursor)
         /\ Exact(attempt.session, db.inbox, attempt.entry.cursor + attempt.consumed)
         /\ Exact(run.session, db.inbox, run.cursor)
         /\ after = "rollback" => db.session = attempt.entry.session
BY DEF AttemptExact

(* After the delta the store has the session of the run object: the         *)
(* baseline is what is stored, and what is recorded adds to it.             *)
LEMMA PersistDeltaEInv ==
  ASSUME IInv, CInv, EInv, PersistDelta
  PROVE  EInv'
<1> SUFFICES ASSUME Calm' PROVE StoredExact' /\ AttemptExact'
  BY DEF EInv
<1> DEFINE new == WithDelta(db, run.session, Base)
           e   == attempt.entry
<1>1. /\ DeltaSteps /\ pc = "delta" /\ setup' = setup /\ crashes' = crashes
      /\ failures' \in {failures, failures + 1}
  BY DeltaShape DEF DeltaSteps
<1>2. Covered /\ StoredExact /\ AttemptExact /\ failures' # failures + 1
  BY <1>1, CalmBefore
<1>3. /\ db \in Stored /\ run \in Stored /\ attempt \in Attempt
      /\ after \in {"execute", "done", "suspended", "rollback"}
      /\ Base \in Baselines
  BY <1>1, BaseTypes DEF IInv, Types, Phases, Nodes, Persisting
<1>4. /\ run.session \in Sessions /\ db.session \in Sessions
  BY <1>3, StoredFields
<1>5. /\ e.inbox = db.inbox
      /\ Grown(e.session, attempt.session)
      /\ after \in {"execute", "done", "suspended"} => db.session = e.session
      /\ after \in {"execute", "rollback"} => run.session = e.session
      /\ after \in {"done", "suspended"} => run.session = attempt.session
      /\ after # "execute" => baseline # NoBaseline
  BY <1>1, <1>2, AttemptFacts DEF Walking, Recorded, Persisting
<1>6. /\ Exact(e.session, db.inbox, e.cursor)
      /\ Exact(attempt.session, db.inbox, e.cursor + attempt.consumed)
      /\ Exact(run.session, db.inbox, run.cursor)
      /\ after = "rollback" => db.session = e.session
  BY <1>1, <1>2, AttemptExactly DEF Persisting
<1> HIDE DEF e
<1>7. /\ after \in {"execute", "rollback"} => run.session = db.session
      /\ Grown(db.session, run.session)
  BY <1>3, <1>4, <1>5, <1>6, SessionFields
<1>8. Base = BaselineOf(db.session)
  <2>1. CASE baseline = NoBaseline
    BY <1>3, <1>5, <1>7, <2>1 DEF Base
  <2>2. CASE baseline # NoBaseline
    BY <1>2, <2>2 DEF Base, StoredExact
  <2> QED
    BY <2>1, <2>2
<1>9. Base.version = db.session.version /\ Base.count = Len(db.session.messages)
  BY <1>4, <1>8, BaselineTypes
<1>10. /\ pc' = "patch" /\ run' = run /\ after' = after /\ attempt' = attempt
       /\ db'.session = run.session /\ baseline' = BaselineOf(run.session)
       /\ db'.inbox = db.inbox
  <2>1. CASE run.session.version = Base.version
    <3>1. /\ db' = db /\ baseline' = Base
          /\ pc' = "patch" /\ run' = run /\ after' = after /\ attempt' = attempt
      BY <1>1, <2>1 DEF DeltaSteps
    <3>2. run.session = db.session
      BY <1>4, <1>7, <1>9, <2>1, GrownElems
    <3> QED
      BY <1>8, <3>1, <3>2
  <2>2. CASE run.session.version # Base.version
    <3>1. /\ db' = new /\ baseline' = BaselineOf(run.session)
          /\ pc' = "patch" /\ run' = run /\ after' = after /\ attempt' = attempt
      BY <1>1, <1>2, <2>2 DEF DeltaSteps
    <3>2. Base.count <= Len(db.session.messages)
      BY <1>4, <1>9, SessionFields
    <3>3. new.session = run.session
      BY <1>3, <1>4, <1>7, <1>9, <3>2, DeltaElems
    <3>4. new.inbox = db.inbox
      BY <1>3, <1>4, WithDeltaTypes
    <3> HIDE DEF new
    <3> QED
      BY <3>1, <3>3, <3>4
  <2> QED
    BY <2>1, <2>2
<1> HIDE DEF new
<1>11. StoredExact'
  BY <1>10 DEF StoredExact, Persisting
<1>12. AttemptExact'
  <2>1. after' = "rollback" => db'.session = attempt'.entry.session
    BY <1>5, <1>10 DEF e
  <2>2. /\ Exact(attempt'.entry.session, db'.inbox, attempt'.entry.cursor)
        /\ Exact(attempt'.session, db'.inbox, attempt'.entry.cursor + attempt'.consumed)
        /\ Exact(run'.session, db'.inbox, run'.cursor)
    BY <1>6, <1>10 DEF e
  <2> QED
    BY <2>1, <2>2 DEF AttemptExact
<1> QED
  BY <1>11, <1>12

(* The patch brings the cursor that belongs to the stored session.          *)
LEMMA PersistPatchEInv ==
  ASSUME IInv, CInv, EInv, PersistPatch
  PROVE  EInv'
<1> SUFFICES ASSUME Calm' PROVE StoredExact' /\ AttemptExact'
  BY DEF EInv
<1> DEFINE new == WithPatch(db, run)
<1>1. /\ pc = "patch" /\ setup' = setup /\ baseline' = baseline /\ crashes' = crashes
      /\ failures' \in {failures, failures + 1}
  BY DEF PersistPatch, Saved, Unsaved
<1>2. StoredExact /\ AttemptExact /\ failures' # failures + 1
  BY <1>1, CalmBefore
<1>3. db' = new /\ Persisted /\ run' = run
  BY <1>2 DEF PersistPatch, Saved, Unsaved
<1>4. /\ db \in Stored /\ run \in Stored /\ attempt \in Attempt /\ setup \in Setups
  BY DEF IInv, Types
<1>5. new.session = db.session /\ new.inbox = db.inbox /\ new.cursor = run.cursor
  BY <1>4, WithPatchTypes
<1> HIDE DEF new
<1>6. /\ Exact(attempt.entry.session, db.inbox, attempt.entry.cursor)
      /\ Exact(attempt.session, db.inbox, attempt.entry.cursor + attempt.consumed)
      /\ Exact(run.session, db.inbox, run.cursor)
      /\ db.session = run.session
  BY <1>1, <1>2, AttemptExactly DEF Persisting, StoredExact
<1>7. /\ db'.session = run.session /\ db'.session = db.session /\ db'.inbox = db.inbox
      /\ db'.cursor = run.cursor
  BY <1>3, <1>5, <1>6
<1>8. \/ /\ pc' \in {"node", "loop", "end"} /\ after' = "execute" /\ attempt' = attempt
      \/ pc' = "idle"
  <2>1. attempt.pos \in 1 .. Size + 1
    BY <1>4, EntryFields
  <2> QED
    BY <1>3, <1>4, <2>1, ComingNodes DEF Persisted, EndOperation
<1>9. Exact(db'.session, db'.inbox, db'.cursor)
  BY <1>6, <1>7
<1>10. StoredExact'
  BY <1>1, <1>2, <1>3, <1>7, <1>8, <1>9 DEF StoredExact
<1>11. CASE pc' = "idle"
  BY <1>10, <1>11 DEF AttemptExact, Nodes, Persisting
<1>12. CASE after' = "execute" /\ attempt' = attempt
  <2>1. /\ Exact(attempt'.entry.session, db'.inbox, attempt'.entry.cursor)
        /\ Exact(attempt'.session, db'.inbox, attempt'.entry.cursor + attempt'.consumed)
        /\ Exact(run'.session, db'.inbox, run'.cursor)
    BY <1>3, <1>6, <1>7, <1>12
  <2> QED
    BY <1>10, <1>12, <2>1 DEF AttemptExact
<1> QED
  BY <1>8, <1>11, <1>12

LEMMA ExecutesEInv ==
  ASSUME IInv, CInv, EInv, Executes
  PROVE  EInv'
<1> SUFFICES ASSUME Calm' PROVE StoredExact' /\ AttemptExact'
  BY DEF EInv
<1> DEFINE e == attempt.entry
<1>1. /\ SameStored /\ setup' = setup /\ pc \in Nodes /\ after = "execute"
  BY ExecutesSameStored
<1>2. crashes' = crashes /\ failures' \in {failures, failures + 1}
  BY DEF Executes, Quiet, Settles, Arms, Acts, Remembers, Saved, Unsaved
<1>3. Covered /\ StoredExact /\ AttemptExact
  BY <1>2, CalmBefore
<1>4. attempt \in Attempt
  BY DEF IInv, Types
<1>5. e.inbox = db.inbox /\ db.session = e.session
  BY <1>1, <1>3, AttemptFacts DEF Walking
<1>6. /\ Exact(e.session, db.inbox, e.cursor)
      /\ Exact(attempt.session, db.inbox, e.cursor + attempt.consumed)
      /\ Exact(run.session, db.inbox, run.cursor)
  BY <1>1, <1>3, AttemptExactly
<1>7. /\ db'.session = db.session /\ db'.inbox = db.inbox /\ db'.cursor = db.cursor
      /\ baseline' = baseline
  BY <1>1 DEF SameStored
<1>8. ASSUME pc' \in Nodes \cup {"delta"} PROVE StoredExact'
  BY <1>1, <1>3, <1>7, <1>8 DEF StoredExact, Exact, Nodes, Persisting
<1> HIDE DEF e
<1>9. ASSUME Advances, after' = after, run'.session = run.session,
             run'.cursor = run.cursor
      PROVE  StoredExact' /\ AttemptExact'
  <2>1. /\ attempt' \in Attempt /\ Continues(attempt, attempt') /\ attempt'.entry = e
        /\ pc' \in Nodes
    BY <1>9 DEF Advances, Continues, e, Nodes
  <2>2. Exact(attempt'.session, db.inbox, e.cursor + attempt'.consumed)
    BY <1>4, <1>5, <1>6, <2>1, ContinuesExact DEF e
  <2>3. /\ Exact(attempt'.entry.session, db'.inbox, attempt'.entry.cursor)
        /\ Exact(attempt'.session, db'.inbox, attempt'.entry.cursor + attempt'.consumed)
        /\ Exact(run'.session, db'.inbox, run'.cursor)
    BY <1>6, <1>7, <1>9, <2>1, <2>2
  <2> QED
    BY <1>1, <1>8, <1>9, <2>1, <2>3 DEF AttemptExact
<1>10. ASSUME pc' = "memo", after' = after, attempt' = attempt,
              run'.session = run.session, run'.cursor = run.cursor
       PROVE  StoredExact' /\ AttemptExact'
  <2>1. /\ Exact(attempt'.entry.session, db'.inbox, attempt'.entry.cursor)
        /\ Exact(attempt'.session, db'.inbox, attempt'.entry.cursor + attempt'.consumed)
        /\ Exact(run'.session, db'.inbox, run'.cursor)
    BY <1>6, <1>7, <1>10 DEF e
  <2> QED
    BY <1>1, <1>8, <1>10, <2>1 DEF AttemptExact, Nodes
<1>11. ASSUME NEW r, Leaves(r)
       PROVE  StoredExact' /\ AttemptExact'
  <2>1. /\ pc' = "delta" /\ attempt' = attempt
        /\ \/ /\ after' = "rollback" /\ run'.session = e.session /\ run'.cursor = e.cursor
           \/ /\ after' \in {"done", "suspended"} /\ run'.session = attempt.session
              /\ run'.cursor = e.cursor + attempt.consumed
    BY <1>11 DEF Leaves, e
  <2>2. /\ Exact(attempt'.entry.session, db'.inbox, attempt'.entry.cursor)
        /\ Exact(attempt'.session, db'.inbox, attempt'.entry.cursor + attempt'.consumed)
        /\ Exact(run'.session, db'.inbox, run'.cursor)
    BY <1>6, <1>7, <2>1 DEF e
  <2>3. after' = "rollback" => db'.session = attempt'.entry.session
    BY <1>5, <1>7, <2>1 DEF e
  <2> QED
    BY <1>8, <2>1, <2>2, <2>3 DEF AttemptExact
<1> QED
  BY <1>9, <1>10, <1>11, ExecutesSameStored

LEMMA SameEInv ==
  ASSUME EInv, Restart \/ UNCHANGED vars
  PROVE  EInv'
<1>1. /\ setup' = setup /\ db' = db /\ run' = run /\ baseline' = baseline
      /\ pc' = pc /\ after' = after /\ attempt' = attempt
      /\ failures' = failures /\ crashes' = crashes
  BY DEF Restart, vars, faults
<1> QED
  BY <1>1 DEF EInv, Calm, StoredExact, AttemptExact, Exact

LEMMA SweepEInv ==
  ASSUME IInv, CInv, EInv, WakeUp \/ EndSweep
  PROVE  EInv'
<1> SUFFICES ASSUME Calm' PROVE StoredExact' /\ AttemptExact'
  BY DEF EInv
<1>1. failures' \in {failures, failures + 1} /\ crashes' \in {crashes, crashes + 1}
  BY SweepShape
<1>2. StoredExact /\ AttemptExact
  BY <1>1, CalmBefore
<1> QED
  BY <1>2, SweepShape DEF StoredExact, AttemptExact, Exact

LEMMA CrashEInv ==
  ASSUME IInv, Crash
  PROVE  EInv'
<1>1. crashes \in Nat /\ failures \in Nat /\ crashes' = crashes + 1 /\ failures' = failures
  BY DEF Crash, IInv, Types
<1>2. \A c, f \in Nat : (c + 1) + f # 0
  OBVIOUS
<1>3. ~ Calm'
  BY <1>1, <1>2 DEF Calm
<1> QED
  BY <1>3 DEF EInv

LEMMA NextEInv == IInv /\ CInv /\ EInv /\ [Next]_vars => EInv'
<1> SUFFICES ASSUME IInv, CInv, EInv, [Next]_vars PROVE EInv'
  OBVIOUS
<1>1. CASE Send \/ Resume \/ ResumeOrphan
  BY <1>1, StartsEInv
<1>2. CASE TimerSweep
  BY <1>2, FireTimerEInv, SweepEInv DEF TimerSweep, FireTimers
<1>3. CASE Create
  BY <1>3, CreateEInv
<1>4. CASE AppendInput
  BY <1>4, AppendEInv
<1>5. CASE Reopen
  BY <1>5, ReopenEInv
<1>6. CASE ResumeRun
  BY <1>6, ResumeRunEInv
<1>7. CASE PersistDelta
  BY <1>7, PersistDeltaEInv
<1>8. CASE PersistPatch
  BY <1>8, PersistPatchEInv
<1>9. CASE ExecuteNode
  BY <1>9, ExecuteShape, ExecutesEInv DEF IInv
<1>10. CASE Crash
  BY <1>10, CrashEInv
<1>11. CASE Restart \/ UNCHANGED vars
  BY <1>11, SameEInv
<1> QED
  BY <1>1, <1>2, <1>3, <1>4, <1>5, <1>6, <1>7, <1>8, <1>9, <1>10, <1>11
  DEF Next, Proceed

(* As long as nothing crashed and no write failed, what is stored between   *)
(* two operations delivers the inputs the cursor has passed, each of them   *)
(* once and in order, whatever models fail, loops exceed, sleeps interrupt  *)
(* and resumptions repeat (begin, skip, rollback, suspension, completion of *)
(* checkpoint_continuation.ts).                                             *)
THEOREM EachInputIsDeliveredOnce == Spec => []EachInputOnce
<1>1. Spec => []IInv
  BY RunInvariant
<1>2. Spec => []CInv
  BY CursorInvariant
<1>3. IInv /\ CInv /\ EInv /\ [Next]_vars => EInv'
  BY NextEInv
<1>4. EInv => EachInputOnce
  BY DEF EInv, Calm, StoredExact, Exact, EachInputOnce, PairConsistent
<1> QED
  BY <1>1, <1>2, <1>3, <1>4, InitEInv, PTL DEF Spec

=============================================================================
