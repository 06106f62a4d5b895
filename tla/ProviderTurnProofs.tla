------------------------- MODULE ProviderTurnProofs -------------------------
(***************************************************************************)
(* How often the turns of a node are run again, which threads a run loses, *)
(* and that every model event is closed, for any number of turns, threads, *)
(* retries and faults.  The first argument follows the restarts that are   *)
(* counted in the store, which no copy in memory falls behind; the second  *)
(* counts the threads that nobody is about to record.                      *)
(***************************************************************************)
EXTENDS ProviderTurn, FiniteSetTheorems, TLAPS

Limit == IF setup.restart THEN setup.max ELSE 0

Binding == [id : Nat, restarts : Nat]

Thread == [alive : BOOLEAN, recorded : BOOLEAN, received : Nat]

Turn == [pc : Busy \cup {"rest"}, held : Binding, again : BOOLEAN,
         restarts : Nat, thread : Nat, open : Nat]

Types ==
  /\ setup \in Setups
  /\ stored \in Binding /\ bound \in Binding
  /\ session \in Seq(Nat)
  /\ turn \in Turn
  /\ threads \in Seq(Thread)
  /\ faults \in Nat /\ rerun \in Nat

(* What the store has counted is what was run again; a turn starts from     *)
(* that number or a later one and stores no smaller one.                    *)
Counted ==
  /\ rerun <= stored.restarts /\ rerun <= bound.restarts
  /\ stored.restarts <= Limit /\ bound.restarts <= Limit
  /\ turn.pc # "rest" =>
       /\ rerun <= turn.restarts /\ turn.restarts <= Limit
       /\ turn.held.restarts <= Limit
       /\ ~ turn.again => rerun <= turn.held.restarts
  /\ turn.pc = "restarting" => MayRestart /\ setup.recording
  /\ ~ setup.recording => stored = None /\ bound = None /\ turn.held = None

(* The threads the store does not know, except for the one that the turn is *)
(* about to tell it of.                                                     *)
Unknown == {t \in DOMAIN threads : ~ threads[t].recorded}

InHand == IF turn.pc \in {"recording", "noting"} THEN {turn.thread} ELSE {}

Stray == Unknown \ InHand

Lost == setup.recording => Cardinality(Stray) <= faults

(* A Codex turn is sent to a thread that is recorded.                       *)
CodexRecorded ==
  setup.recording /\ setup.provider = "codex" =>
    /\ turn.pc # "noting"
    /\ turn.pc = "sending" => turn.thread \notin Unknown
    /\ \A t \in Unknown : threads[t].received = 0

(* A turn that is sent to no thread is the first of a Claude session.       *)
ToNobody ==
  turn.pc \in {"recording", "noting"} \/ (turn.pc = "sending" /\ setup.provider = "codex")
    => turn.thread # 0

IInv ==
  /\ Types /\ Counted /\ Lost /\ CodexRecorded /\ ToNobody /\ EventsBalanced

-----------------------------------------------------------------------------
(* Types.                                                                   *)

LEMMA SetupFields ==
  ASSUME setup \in Setups
  PROVE  /\ setup.provider \in {"codex", "claude"} /\ setup.restart \in BOOLEAN
         /\ setup.max \in Nat /\ setup.thread \in {"new", "auto", "fixed"}
         /\ setup.recording \in BOOLEAN /\ setup.keep \in BOOLEAN
BY ProviderAssumption

LEMMA LimitType == ASSUME setup \in Setups PROVE Limit \in Nat
BY SetupFields DEF Limit

(* What a call of the provider starts with.                                 *)
LEMMA CalledFields ==
  ASSUME Types, NEW t \in Turn, NEW b \in Binding
  PROVE  /\ Called(t, b) \in Turn
         /\ Called(t, b).pc \in {"recording", "starting", "sending"}
         /\ Called(t, b).held = t.held /\ Called(t, b).again = t.again
         /\ Called(t, b).restarts = IF t.again THEN t.restarts ELSE b.restarts
         /\ Called(t, b).pc = "recording" => Called(t, b).thread # 0
         /\ Called(t, b).pc = "sending" => setup.provider = "claude"
<1>1. Option \in Nat
  BY SetupFields DEF Types, Option, Derived
<1>2. Resolved(t.again, b) \in Nat
  BY <1>1 DEF Resolved, Binding
<1> DEFINE r == Resolved(t.again, b)
<1>3. r \in Nat
  BY <1>2
<1>4. Called(t, b) = [t EXCEPT !.thread = r,
                       !.restarts = IF t.again THEN t.restarts ELSE b.restarts,
                       !.open = IF setup.provider = "codex" \/ r = 0 THEN @ + 1 ELSE @,
                       !.pc = IF r # 0 THEN "recording"
                              ELSE IF setup.provider = "codex" THEN "starting" ELSE "sending"]
  BY DEF Called
<1> HIDE DEF r
<1>5. setup \in Setups
  BY DEF Types
<1>6. Called(t, b) \in Turn
  <2>1. t.open \in Nat /\ t.open + 1 \in Nat
    BY DEF Turn
  <2>2. (IF t.again THEN t.restarts ELSE b.restarts) \in Nat
    BY DEF Turn, Binding
  <2>3. (IF setup.provider = "codex" \/ r = 0 THEN t.open + 1 ELSE t.open) \in Nat
    BY <2>1
  <2> QED
    BY <1>3, <1>4, <2>2, <2>3 DEF Turn, Busy
<1>7. /\ Called(t, b).held = t.held /\ Called(t, b).again = t.again
      /\ Called(t, b).restarts = IF t.again THEN t.restarts ELSE b.restarts
  BY <1>4 DEF Turn
<1>8. /\ Called(t, b).pc = IF r # 0 THEN "recording"
                           ELSE IF setup.provider = "codex" THEN "starting" ELSE "sending"
      /\ Called(t, b).thread = r
  BY <1>4 DEF Turn
<1> QED
  BY <1>5, <1>6, <1>7, <1>8, SetupFields

LEMMA RestFields ==
  /\ AtRest \in Turn /\ AtRest.pc = "rest" /\ AtRest.open = 0
  /\ AtRest.held = None /\ None \in Binding /\ None.id = 0 /\ None.restarts = 0
  /\ NewThread \in Thread /\ NewThread.received = 0 /\ ~ NewThread.recorded
BY DEF AtRest, None, Turn, Binding, Busy, NewThread, Thread

(* What the store and the provider do to the threads.                       *)
LEMMA ThreadsTypes ==
  ASSUME Types, NEW t
  PROVE  /\ Len(threads) + 1 \in Nat
         /\ [threads EXCEPT ![t].recorded = TRUE] \in Seq(Thread)
         /\ [threads EXCEPT ![t].alive = FALSE] \in Seq(Thread)
         /\ Received(t) \in Seq(Thread)
         /\ Append(threads, NewThread) \in Seq(Thread)
         /\ Append(threads, [NewThread EXCEPT !.received = 1]) \in Seq(Thread)
<1>1. threads \in [1 .. Len(threads) -> Thread] /\ Len(threads) \in Nat
  BY DEF Types
<1>2. NewThread \in Thread /\ [NewThread EXCEPT !.received = 1] \in Thread
  BY DEF NewThread, Thread
<1>3. \A f \in [1 .. Len(threads) -> Thread] : f \in Seq(Thread)
  BY <1>1
<1>4. [threads EXCEPT ![t].recorded = TRUE] \in [1 .. Len(threads) -> Thread]
  BY <1>1 DEF Thread
<1>5. [threads EXCEPT ![t].alive = FALSE] \in [1 .. Len(threads) -> Thread]
  BY <1>1 DEF Thread
<1>6. Received(t) \in [1 .. Len(threads) -> Thread]
  <2>1. \A u \in Thread : [u EXCEPT !.received = @ + 1] \in Thread
    BY DEF Thread
  <2> QED
    BY <1>1, <2>1 DEF Received
<1> QED
  BY <1>1, <1>2, <1>3, <1>4, <1>5, <1>6 DEF Types

LEMMA InitTypes == Init => Types
<1> SUFFICES ASSUME Init PROVE Types
  OBVIOUS
<1>1. [NewThread EXCEPT !.recorded = TRUE] \in Thread
  BY DEF NewThread, Thread
<1>2. threads \in Seq(Thread)
  BY <1>1 DEF Init
<1> QED
  BY <1>2, RestFields DEF Init, Types

LEMMA TypesKept == Types /\ [Next]_vars => Types'
<1> SUFFICES ASSUME Types, [Next]_vars PROVE Types'
  OBVIOUS
<1> USE RestFields
<1>1. CASE Execute
  <2>1. PICK from \in {stored, bound, None} :
          bound' = from /\ turn' = Called([AtRest EXCEPT !.held = from], from)
    BY <1>1 DEF Execute
  <2>2. from \in Binding /\ [AtRest EXCEPT !.held = from] \in Turn
    BY <2>1 DEF Types, Turn
  <2> QED
    BY <1>1, <2>1, <2>2, CalledFields DEF Execute, Types
<1>2. CASE StartThread
  <2>1. turn' \in Turn
    BY <1>2, ThreadsTypes DEF StartThread, Types, Turn, Busy
  <2> QED
    BY <1>2, <2>1, ThreadsTypes DEF StartThread, Types
<1>3. CASE Record
  <2>1. [id |-> turn.thread, restarts |-> turn.restarts] \in Binding
    BY DEF Types, Turn, Binding
  <2>2. [turn EXCEPT !.pc = "running"] \in Turn /\ Sends(turn) \in Turn
    <3>1. turn.open + 1 \in Nat
      BY DEF Types, Turn
    <3> QED
      BY <3>1 DEF Sends, Types, Turn, Busy
  <2>3. turn' \in Turn
    BY <1>3, <2>2 DEF Record
  <2>4. [threads EXCEPT ![turn.thread].recorded = TRUE] \in Seq(Thread)
    BY ThreadsTypes
  <2> QED
    BY <1>3, <2>1, <2>3, <2>4 DEF Record, Recorded, Types
<1>4. CASE Send
  <2>1. turn' \in Turn /\ threads' \in Seq(Thread)
    <3>1. CASE SendToNew
      <4>1. turn' \in Turn
        BY <3>1, ThreadsTypes DEF SendToNew, Types, Turn, Busy
      <4> QED
        BY <3>1, <4>1, ThreadsTypes DEF SendToNew
    <3>2. CASE SendTo(turn.thread)
      <4>1. turn' \in Turn
        BY <3>2 DEF SendTo, Types, Turn, Busy
      <4> QED
        BY <3>2, <4>1, ThreadsTypes DEF SendTo
    <3> QED
      BY <1>4, <3>1, <3>2 DEF Send
  <2> QED
    BY <1>4, <2>1 DEF Send, Types
<1>5. CASE Answer
  BY <1>5 DEF Answer, Types, Turn, Busy
<1>6. CASE Refuse
  <2>1. turn' \in Turn
    BY <1>6 DEF Refuse, Failed, Types, Turn, Busy
  <2>2. threads' \in {threads, Append(threads, NewThread)}
    BY <1>6 DEF Refuse
  <2>3. threads' \in Seq(Thread)
    BY <2>2, ThreadsTypes DEF Types
  <2>4. faults' \in Nat
    BY <1>6 DEF Refuse, Types
  <2> QED
    BY <1>6, <2>1, <2>3, <2>4 DEF Refuse, Types
<1>7. CASE RecordFails
  <2>1. turn' \in Turn
    BY <1>7 DEF RecordFails, Failed, Types, Turn, Busy
  <2>2. /\ [turn.held EXCEPT !.restarts = @ + 1] \in Binding
        /\ [id |-> turn.thread, restarts |-> turn.restarts] \in Binding
    <3>1. turn.held \in Binding /\ turn.thread \in Nat /\ turn.restarts \in Nat
      BY DEF Types, Turn
    <3> QED
      BY <3>1 DEF Binding
  <2> QED
    BY <1>7, <2>1, <2>2 DEF RecordFails, Types
<1>8. CASE Retry
  BY <1>8, CalledFields DEF Retry, Types
<1>9. CASE GiveUp
  <2>1. turn' \in Turn
    BY <1>9 DEF GiveUp, CloseEvents, Closed, Types, Turn, Busy
  <2> QED
    BY <1>9, <2>1 DEF GiveUp, Types
<1>10. CASE Restart
  <2> DEFINE counted == [turn.held EXCEPT !.restarts = @ + 1]
             t == [turn EXCEPT !.again = TRUE, !.restarts = counted.restarts]
  <2>1. counted \in Binding
    <3>1. turn.held \in Binding
      BY DEF Types, Turn
    <3> QED
      BY <3>1 DEF Binding
  <2>2. t \in Turn
    <3>1. counted.restarts \in Nat
      BY <2>1 DEF Binding
    <3> HIDE DEF counted
    <3> QED
      BY <3>1 DEF Types, Turn
  <2>3. Recorded(counted) /\ turn' = Called(t, counted)
    BY <1>10 DEF Restart
  <2> HIDE DEF counted, t
  <2>4. turn' \in Turn
    BY <2>1, <2>2, <2>3, CalledFields
  <2>5. [threads EXCEPT ![counted.id].recorded = TRUE] \in Seq(Thread)
    BY ThreadsTypes
  <2>6. rerun' \in Nat
    BY <1>10 DEF Restart, Types
  <2>7. /\ bound' \in Binding /\ stored' \in Binding
        /\ threads' \in Seq(Thread)
    BY <2>1, <2>3, <2>5 DEF Recorded, Types
  <2> QED
    BY <1>10, <2>4, <2>6, <2>7 DEF Restart, Types
<1>11. CASE Complete
  <2>1. turn' \in Turn
    BY <1>11 DEF Complete, CloseEvents, Closed, Types, Turn, Busy
  <2>2. session' \in Seq(Nat)
    BY <1>11 DEF Complete, Types, Turn
  <2> QED
    BY <1>11, <2>1, <2>2 DEF Complete, Types
<1>12. CASE Crash
  BY <1>12 DEF Crash, Types
<1>13. CASE \E t \in DOMAIN threads : Forget(t)
  <2>1. PICK t \in DOMAIN threads : Forget(t)
    BY <1>13
  <2>2. threads' = [threads EXCEPT ![t].alive = FALSE] /\ faults' = faults + 1
    BY <2>1 DEF Forget
  <2>3. threads' \in Seq(Thread)
    BY <2>2, ThreadsTypes
  <2>4. faults' \in Nat
    BY <2>2 DEF Types
  <2> QED
    BY <2>1, <2>3, <2>4 DEF Forget, Types
<1>14. CASE UNCHANGED vars
  BY <1>14 DEF vars, Types
<1> QED
  BY <1>1, <1>2, <1>3, <1>4, <1>5, <1>6, <1>7, <1>8, <1>9, <1>10, <1>11,
     <1>12, <1>13, <1>14 DEF Next

(* The shape of the state, over every crash and failure: the numbers that   *)
(* the following arguments compare are numbers.                             *)
THEOREM TurnTypeCorrect == Spec => []Types
BY InitTypes, TypesKept, PTL DEF Spec

-----------------------------------------------------------------------------
(* Restarts.                                                                *)

LEMMA InitCounted == Init => Counted
<1> SUFFICES ASSUME Init PROVE Counted
  OBVIOUS
<1>1. Limit \in Nat
  BY LimitType DEF Init
<1> QED
  BY <1>1, RestFields DEF Init, Counted

LEMMA CountedKept == Types /\ Counted /\ [Next]_vars => Counted'
<1> SUFFICES ASSUME Types, Counted, [Next]_vars PROVE Counted'
  OBVIOUS
<1>1. Limit \in Nat
  BY LimitType DEF Types
<1>2. setup' = setup /\ Limit' = Limit
  BY DEF Next, Execute, StartThread, Record, Send, Answer, Refuse, RecordFails, Retry,
         GiveUp, Restart, Complete, Crash, Forget, vars, Limit
<1>3. /\ turn \in Turn /\ stored \in Binding /\ bound \in Binding
      /\ turn.restarts \in Nat /\ turn.held \in Binding /\ turn.held.restarts \in Nat
      /\ stored.restarts \in Nat /\ bound.restarts \in Nat /\ rerun \in Nat
      /\ turn.again \in BOOLEAN /\ turn.pc \in Busy \cup {"rest"}
  BY DEF Types, Turn, Binding
<1> USE <1>1, <1>2, <1>3, RestFields
<1>4. CASE Execute
  <2>1. PICK from \in {stored, bound, None} :
          /\ bound' = from /\ turn' = Called([AtRest EXCEPT !.held = from], from)
          /\ setup.recording => from \in {stored, bound}
          /\ ~ setup.recording => from = None
    BY <1>4 DEF Execute
  <2>2. [AtRest EXCEPT !.held = from] \in Turn /\ from \in Binding
    BY <2>1 DEF Turn
  <2>3. /\ turn'.pc # "restarting" /\ turn'.held = from /\ turn'.restarts = from.restarts
    <3>1. ~ [AtRest EXCEPT !.held = from].again /\ [AtRest EXCEPT !.held = from].held = from
      BY <2>2 DEF AtRest
    <3> QED
      BY <2>1, <2>2, <3>1, CalledFields
  <2>4. rerun <= from.restarts /\ from.restarts <= Limit
    BY <2>1 DEF Counted
  <2> QED
    BY <1>4, <2>1, <2>3, <2>4 DEF Counted, Execute
<1>5. CASE StartThread
  BY <1>5 DEF StartThread, Counted, Turn
<1>6. CASE Record
  <2>1. /\ turn'.restarts = turn.restarts /\ turn'.held = turn.held
        /\ turn'.again = turn.again /\ turn'.pc \in {"running", "sending"}
    BY <1>6 DEF Record, Sends, Turn
  <2>2. \/ UNCHANGED << bound, stored >>
        \/ /\ setup.recording
           /\ bound'.restarts = turn.restarts /\ stored'.restarts = turn.restarts
    BY <1>6 DEF Record, Recorded
  <2> QED
    BY <1>6, <2>1, <2>2 DEF Record, Counted
<1>7. CASE Send
  <2>1. /\ turn'.restarts = turn.restarts /\ turn'.held = turn.held
        /\ turn'.again = turn.again /\ turn'.pc \in {"running", "noting"}
    BY <1>7 DEF Send, SendTo, SendToNew, Turn
  <2> QED
    BY <1>7, <2>1 DEF Send, Counted
<1>8. CASE Answer
  BY <1>8 DEF Answer, Counted, Turn
<1>9. CASE Refuse
  BY <1>9 DEF Refuse, Failed, Counted, Turn
<1>10. CASE RecordFails
  <2>1. CASE turn.pc = "restarting"
    <3>1. bound'.restarts = turn.held.restarts + 1 /\ turn' = AtRest
      BY <1>10, <2>1 DEF RecordFails, Binding
    <3>2. turn.held.restarts + 1 <= Limit /\ rerun <= turn.held.restarts
      <4>1. setup.max \in Nat
        BY SetupFields DEF Types
      <4> QED
        BY <2>1, <4>1 DEF Counted, MayRestart, Limit
    <3> QED
      BY <1>10, <2>1, <3>1, <3>2 DEF RecordFails, Counted
  <2>2. CASE turn.pc # "restarting"
    <3>1. /\ bound'.restarts = turn.restarts /\ turn'.pc = "failed"
          /\ turn'.restarts = turn.restarts /\ turn'.held = turn.held
          /\ turn'.again = turn.again
      BY <1>10, <2>2 DEF RecordFails, Failed, Turn
    <3> QED
      BY <1>10, <2>2, <3>1 DEF RecordFails, Counted
  <2> QED
    BY <2>1, <2>2
<1>11. CASE Retry
  <2>1. /\ turn'.pc \in {"recording", "starting", "sending"}
        /\ turn'.held = turn.held /\ turn'.again = turn.again
        /\ turn'.restarts = IF turn.again THEN turn.restarts ELSE bound.restarts
    BY <1>11, CalledFields DEF Retry
  <2> QED
    BY <1>11, <2>1 DEF Retry, Counted
<1>12. CASE GiveUp
  <2>1. /\ turn'.restarts = turn.restarts /\ turn'.held = turn.held
        /\ turn'.again = turn.again
        /\ turn'.pc = IF MayRestart THEN "restarting" ELSE "rest"
    BY <1>12 DEF GiveUp, CloseEvents, Closed, Turn
  <2>2. turn.pc = "failed" /\ UNCHANGED << setup, stored, bound, rerun >>
    BY <1>12 DEF GiveUp
  <2>3. MayRestart => setup.recording
    BY <2>2, SetupFields DEF Counted, MayRestart, Types
  <2> QED
    BY <2>1, <2>2, <2>3 DEF Counted, MayRestart
<1>13. CASE Restart
  <2> DEFINE counted == [turn.held EXCEPT !.restarts = @ + 1]
             t == [turn EXCEPT !.again = TRUE, !.restarts = counted.restarts]
  <2>1. counted \in Binding /\ counted.restarts = turn.held.restarts + 1
    BY DEF Binding
  <2>2. t \in Turn /\ t.held = turn.held /\ t.again /\ t.restarts = turn.held.restarts + 1
    <3>1. counted.restarts \in Nat /\ counted.restarts = turn.held.restarts + 1
      BY <2>1 DEF Binding
    <3> HIDE DEF counted
    <3> QED
      BY <3>1 DEF Turn
  <2>3. Recorded(counted) /\ turn' = Called(t, counted)
    BY <1>13 DEF Restart
  <2> HIDE DEF counted, t
  <2>4. /\ turn'.pc \in {"recording", "starting", "sending"}
        /\ turn'.held = turn.held /\ turn'.again
        /\ turn'.restarts = turn.held.restarts + 1
    <3>1. /\ Called(t, counted).pc \in {"recording", "starting", "sending"}
          /\ Called(t, counted).held = t.held /\ Called(t, counted).again = t.again
          /\ Called(t, counted).restarts = IF t.again THEN t.restarts ELSE counted.restarts
      BY <2>1, <2>2, CalledFields
    <3> QED
      BY <2>2, <2>3, <3>1
  <2>5. bound' = counted /\ stored' = counted
    BY <1>13, <2>3 DEF Recorded, Restart, Counted
  <2>6. turn.held.restarts + 1 <= Limit /\ ~ turn.again /\ turn.held.restarts <= Limit
    <3>1. setup.max \in Nat
      BY SetupFields DEF Types
    <3> QED
      BY <1>13, <3>1 DEF Restart, Counted, MayRestart, Limit
  <2> QED
    BY <1>13, <2>1, <2>4, <2>5, <2>6 DEF Restart, Counted
<1>14. CASE Complete
  <2>1. turn'.pc = "rest" /\ turn'.held = turn.held
    BY <1>14 DEF Complete, CloseEvents, Closed, Turn
  <2> QED
    BY <1>14, <2>1 DEF Complete, Counted
<1>15. CASE Crash
  BY <1>15 DEF Crash, Counted
<1>16. CASE \E t \in DOMAIN threads : Forget(t)
  BY <1>16 DEF Forget, Counted, MayRestart
<1>17. CASE UNCHANGED vars
  BY <1>17 DEF vars, Counted, MayRestart
<1> QED
  BY <1>4, <1>5, <1>6, <1>7, <1>8, <1>9, <1>10, <1>11, <1>12, <1>13, <1>14,
     <1>15, <1>16, <1>17 DEF Next

(* executeWithUnresumablePolicy: the turns of a node are run again from the *)
(* start at most maxRestarts times in the life of the run, and never        *)
(* without the option, whatever crashes and fails in between.               *)
THEOREM TurnRestartsBounded == Spec => []RestartsBounded
<1>1. Init => Types /\ Counted
  BY InitTypes, InitCounted
<1>2. Types /\ Counted /\ [Next]_vars => Types' /\ Counted'
  BY TypesKept, CountedKept
<1>3. Types /\ Counted => RestartsBounded
  BY LimitType DEF Types, Counted, Binding, RestartsBounded, Limit
<1> QED
  BY <1>1, <1>2, <1>3, PTL DEF Spec

-----------------------------------------------------------------------------
(* Threads.                                                                 *)

LEMMA OneMore ==
  ASSUME NEW S, IsFiniteSet(S), NEW x, NEW T \in SUBSET (S \cup {x})
  PROVE  Cardinality(T) <= Cardinality(S) + 1 /\ Cardinality(T) \in Nat
<1>1. Cardinality(S) \in Nat
  BY FS_CardinalityType
<1>2. /\ IsFiniteSet(S \cup {x})
      /\ Cardinality(S \cup {x}) =
           IF x \in S THEN Cardinality(S) ELSE Cardinality(S) + 1
  BY FS_AddElement, Zenon
<1>3. IsFiniteSet(T) /\ Cardinality(T) <= Cardinality(S \cup {x})
  BY <1>2, FS_Subset, Zenon
<1>4. Cardinality(T) \in Nat
  BY <1>3, FS_CardinalityType
<1> QED
  BY <1>1, <1>2, <1>3, <1>4

LEMMA StrayFinite == ASSUME Types PROVE IsFiniteSet(Stray) /\ Cardinality(Stray) \in Nat
<1>1. DOMAIN threads = 1 .. Len(threads) /\ Len(threads) \in Int
  BY DEF Types
<1>2. IsFiniteSet(DOMAIN threads)
  BY <1>1, FS_Interval, 1 \in Int, Zenon
<1>3. Stray \in SUBSET (DOMAIN threads)
  BY DEF Stray, Unknown
<1> QED
  BY <1>2, <1>3, FS_Subset, FS_CardinalityType

(* What the steps do to the threads the store does not know.                *)
LEMMA UnknownAfter ==
  ASSUME Types, NEW t
  PROVE  /\ \A new \in {NewThread, [NewThread EXCEPT !.received = 1]} :
              threads' = Append(threads, new) =>
                Unknown' = Unknown \cup {Len(threads) + 1}
         /\ threads' = [threads EXCEPT ![t].recorded = TRUE] => Unknown' = Unknown \ {t}
         /\ threads' = Received(t) => Unknown' = Unknown
         /\ threads' = [threads EXCEPT ![t].alive = FALSE] => Unknown' = Unknown
         /\ threads' = threads => Unknown' = Unknown
<1>1. threads \in [1 .. Len(threads) -> Thread] /\ Len(threads) \in Nat
  BY DEF Types
<1>2. ~ NewThread.recorded /\ ~ [NewThread EXCEPT !.received = 1].recorded
  BY DEF NewThread
<1>3. ASSUME NEW new \in {NewThread, [NewThread EXCEPT !.received = 1]},
             threads' = Append(threads, new)
      PROVE  Unknown' = Unknown \cup {Len(threads) + 1}
  <2>1. /\ DOMAIN threads' = 1 .. Len(threads) + 1
        /\ \A u \in 1 .. Len(threads) : threads'[u] = threads[u]
        /\ threads'[Len(threads) + 1] = new
    BY <1>1, <1>3 DEF Types
  <2>2. ~ new.recorded
    BY <1>2, <1>3
  <2> QED
    BY <1>1, <2>1, <2>2 DEF Unknown
<1>4. ASSUME threads' = [threads EXCEPT ![t].recorded = TRUE]
      PROVE  Unknown' = Unknown \ {t}
  BY <1>1, <1>4 DEF Unknown, Thread
<1>5. ASSUME threads' = Received(t) PROVE Unknown' = Unknown
  BY <1>1, <1>5 DEF Unknown, Thread, Received
<1>6. ASSUME threads' = [threads EXCEPT ![t].alive = FALSE] PROVE Unknown' = Unknown
  BY <1>1, <1>6 DEF Unknown, Thread
<1> QED
  BY <1>3, <1>4, <1>5, <1>6 DEF Unknown

(* A step makes no thread stray, or is a fault that makes one stray.        *)
OneStray == faults' = faults + 1 /\ \E x : Stray' \subseteq Stray \cup {x}

LEMMA StrayAfter ==
  ASSUME Types, setup.recording, [Next]_vars
  PROVE  OneStray \/ (faults' >= faults /\ Stray' \subseteq Stray)
<1>1. turn \in Turn /\ turn.pc \in Busy \cup {"rest"} /\ faults \in Nat
  BY DEF Types, Turn
<1> USE <1>1, RestFields
<1>2. CASE Execute
  BY <1>2, UnknownAfter DEF Execute, Stray, InHand
<1>3. CASE StartThread
  <2>1. turn'.pc = "recording" /\ turn'.thread = Len(threads) + 1 /\ turn.pc = "starting"
    BY <1>3 DEF StartThread, Turn
  <2> QED
    BY <1>3, <2>1, UnknownAfter DEF StartThread, Stray, InHand
<1>4. CASE Record
  <2>1. turn'.pc \in {"running", "sending"} /\ turn.pc \in {"recording", "noting"}
    BY <1>4 DEF Record, Sends, Turn
  <2>2. threads' = [threads EXCEPT ![turn.thread].recorded = TRUE]
    BY <1>4 DEF Record, Recorded
  <2>3. Unknown' = Unknown \ {turn.thread}
    BY <2>2, UnknownAfter
  <2> QED
    BY <1>4, <2>1, <2>3 DEF Record, Stray, InHand
<1>5. CASE Send
  <2>1. turn.pc = "sending" /\ faults' = faults
    BY <1>5 DEF Send
  <2>2. CASE SendToNew
    <3>1. turn'.pc = "noting" /\ turn'.thread = Len(threads) + 1
      BY <2>2 DEF SendToNew, Turn
    <3>2. Unknown' = Unknown \cup {Len(threads) + 1}
      BY <2>2, UnknownAfter DEF SendToNew
    <3> QED
      BY <2>1, <3>1, <3>2 DEF Stray, InHand
  <2>3. CASE SendTo(turn.thread)
    <3>1. Unknown' = Unknown
      BY <2>3, UnknownAfter DEF SendTo
    <3> QED
      BY <2>1, <3>1 DEF Stray, InHand
  <2> QED
    BY <1>5, <2>2, <2>3 DEF Send
<1>6. CASE Answer
  BY <1>6, UnknownAfter DEF Answer, Stray, InHand, Turn
<1>7. CASE Refuse
  <2>1. threads' \in {threads, Append(threads, NewThread)} /\ faults' = faults + 1
    BY <1>7 DEF Refuse
  <2>2. Unknown' \subseteq Unknown \cup {Len(threads) + 1}
    BY <2>1, UnknownAfter
  <2>3. turn'.pc = "failed" /\ turn.pc \in {"starting", "sending", "running"}
    BY <1>7 DEF Refuse, Failed, Turn
  <2>4. Stray' \subseteq Stray \cup {Len(threads) + 1}
    BY <2>2, <2>3 DEF Stray, InHand
  <2> QED
    BY <2>1, <2>4 DEF OneStray
<1>8. CASE RecordFails
  <2>1. Stray' \subseteq Stray \cup {turn.thread}
    BY <1>8, UnknownAfter DEF RecordFails, Stray, InHand
  <2> QED
    BY <1>8, <2>1 DEF RecordFails, OneStray
<1>9. CASE Retry
  BY <1>9, UnknownAfter DEF Retry, Stray, InHand
<1>10. CASE GiveUp
  BY <1>10, UnknownAfter DEF GiveUp, Stray, InHand
<1>11. CASE Restart
  <2>1. \E t : threads' = [threads EXCEPT ![t].recorded = TRUE]
    BY <1>11 DEF Restart, Recorded
  <2>2. Unknown' \subseteq Unknown
    BY <2>1, UnknownAfter
  <2> QED
    BY <1>11, <2>2 DEF Restart, Stray, InHand
<1>12. CASE Complete
  BY <1>12, UnknownAfter DEF Complete, Stray, InHand
<1>13. CASE Crash
  <2>1. Stray' \subseteq Stray \cup {turn.thread}
    BY <1>13, UnknownAfter DEF Crash, Stray, InHand
  <2> QED
    BY <1>13, <2>1 DEF Crash, OneStray
<1>14. CASE \E t \in DOMAIN threads : Forget(t)
  <2>1. PICK t \in DOMAIN threads : Forget(t)
    BY <1>14
  <2>2. Unknown' = Unknown
    BY <2>1, UnknownAfter DEF Forget
  <2> QED
    BY <2>1, <2>2 DEF Forget, Stray, InHand
<1>15. CASE UNCHANGED vars
  BY <1>15, UnknownAfter DEF vars, Stray, InHand
<1> QED
  BY <1>2, <1>3, <1>4, <1>5, <1>6, <1>7, <1>8, <1>9, <1>10, <1>11, <1>12,
     <1>13, <1>14, <1>15 DEF Next

LEMMA LostKept == Types /\ Types' /\ Lost /\ [Next]_vars => Lost'
<1> SUFFICES ASSUME Types, Types', Lost, [Next]_vars, setup'.recording
             PROVE  Cardinality(Stray') <= faults'
  BY DEF Lost
<1>1. setup' = setup
  BY DEF Next, Execute, StartThread, Record, Send, Answer, Refuse, RecordFails, Retry,
         GiveUp, Restart, Complete, Crash, Forget, vars
<1>2. IsFiniteSet(Stray) /\ Cardinality(Stray) \in Nat /\ Cardinality(Stray) <= faults
  BY <1>1, StrayFinite DEF Lost
<1>3. faults \in Nat /\ faults' \in Nat
  BY DEF Types
<1>4. CASE OneStray
  <2>1. PICK x : Stray' \in SUBSET (Stray \cup {x})
    BY <1>4 DEF OneStray
  <2>2. Cardinality(Stray') <= Cardinality(Stray) + 1 /\ Cardinality(Stray') \in Nat
    BY <1>2, <2>1, OneMore
  <2> QED
    BY <1>2, <1>3, <1>4, <2>2 DEF OneStray
<1>5. CASE faults' >= faults /\ Stray' \subseteq Stray
  <2>1. Cardinality(Stray') <= Cardinality(Stray) /\ Cardinality(Stray') \in Nat
    BY <1>2, <1>5, FS_Subset, FS_CardinalityType
  <2> QED
    BY <1>2, <1>3, <1>5, <2>1
<1> QED
  BY <1>1, <1>4, <1>5, StrayAfter

(* No thread the store does not know has received a turn of Codex: one that *)
(* is recorded may get it, and new ones have none.                          *)
Untouched == \A t \in Unknown : threads[t].received = 0

LEMMA UntouchedAfter ==
  ASSUME Types, Untouched, NEW t
  PROVE  /\ threads' = Append(threads, NewThread) => Untouched'
         /\ threads' = [threads EXCEPT ![t].recorded = TRUE] => Untouched'
         /\ threads' = Received(t) /\ t \notin Unknown => Untouched'
         /\ threads' = [threads EXCEPT ![t].alive = FALSE] => Untouched'
         /\ threads' = threads => Untouched'
<1>1. threads \in [1 .. Len(threads) -> Thread] /\ Len(threads) \in Nat
  BY DEF Types
<1>2. ASSUME threads' = Append(threads, NewThread) PROVE Untouched'
  <2>1. /\ DOMAIN threads' = 1 .. Len(threads) + 1
        /\ \A u \in 1 .. Len(threads) : threads'[u] = threads[u]
        /\ threads'[Len(threads) + 1] = NewThread
    BY <1>1, <1>2, RestFields DEF Types
  <2> QED
    BY <1>1, <2>1, RestFields DEF Untouched, Unknown
<1>3. ASSUME threads' = [threads EXCEPT ![t].recorded = TRUE] PROVE Untouched'
  BY <1>1, <1>3 DEF Untouched, Unknown, Thread
<1>4. ASSUME threads' = Received(t), t \notin Unknown PROVE Untouched'
  <2>1. Unknown' = Unknown
    BY <1>4, UnknownAfter
  <2>2. \A u \in Unknown : threads'[u] = threads[u]
    BY <1>1, <1>4 DEF Received, Unknown
  <2> QED
    BY <2>1, <2>2 DEF Untouched
<1>5. ASSUME threads' = [threads EXCEPT ![t].alive = FALSE] PROVE Untouched'
  BY <1>1, <1>5 DEF Untouched, Unknown, Thread
<1> QED
  BY <1>2, <1>3, <1>4, <1>5 DEF Untouched, Unknown

LEMMA CodexKept ==
  Types /\ ToNobody /\ CodexRecorded /\ [Next]_vars => CodexRecorded'
<1> SUFFICES ASSUME Types, ToNobody, CodexRecorded, [Next]_vars,
                    setup'.recording, setup'.provider = "codex"
             PROVE  /\ turn'.pc # "noting"
                    /\ turn'.pc = "sending" => turn'.thread \notin Unknown'
                    /\ Untouched'
  BY DEF CodexRecorded, Untouched
<1>1. setup' = setup /\ setup.recording /\ setup.provider = "codex"
  BY DEF Next, Execute, StartThread, Record, Send, Answer, Refuse, RecordFails, Retry,
         GiveUp, Restart, Complete, Crash, Forget, vars
<1>2. /\ turn \in Turn /\ turn.pc # "noting" /\ Untouched
      /\ turn.pc = "sending" => turn.thread \notin Unknown
  BY <1>1 DEF Types, CodexRecorded, Untouched
<1> USE <1>1, <1>2, RestFields
<1>3. CASE Execute
  <2>1. turn'.pc \in {"recording", "starting"}
    <3>1. PICK from \in {stored, bound} :
            turn' = Called([AtRest EXCEPT !.held = from], from)
      BY <1>3 DEF Execute
    <3>2. from \in Binding /\ [AtRest EXCEPT !.held = from] \in Turn
      BY <3>1 DEF Types, Turn
    <3> QED
      BY <3>1, <3>2, CalledFields
  <2> QED
    BY <1>3, <2>1, UntouchedAfter DEF Execute
<1>4. CASE StartThread
  BY <1>4, UntouchedAfter DEF StartThread, Turn
<1>5. CASE Record
  <2>1. /\ turn'.pc = "sending" /\ turn'.thread = turn.thread
        /\ threads' = [threads EXCEPT ![turn.thread].recorded = TRUE]
    BY <1>5 DEF Record, Sends, Recorded, Turn
  <2>2. Unknown' = Unknown \ {turn.thread}
    BY <2>1, UnknownAfter
  <2> QED
    BY <2>1, <2>2, UntouchedAfter
<1>6. CASE Send
  <2>1. threads' = Received(turn.thread) /\ turn'.pc = "running"
    BY <1>6 DEF Send, SendTo, SendToNew, ToNobody, Turn
  <2> QED
    BY <1>6, <2>1, UntouchedAfter DEF Send
<1>7. CASE Answer
  BY <1>7, UntouchedAfter DEF Answer, Turn
<1>8. CASE Refuse
  <2>1. threads' \in {threads, Append(threads, NewThread)} /\ turn'.pc = "failed"
    BY <1>8 DEF Refuse, Failed, Turn
  <2> QED
    BY <2>1, UntouchedAfter
<1>9. CASE RecordFails
  <2>1. turn'.pc \in {"rest", "failed"} /\ threads' = threads
    BY <1>9 DEF RecordFails, Failed, Turn
  <2> QED
    BY <2>1, UntouchedAfter
<1>10. CASE Retry
  <2>1. turn'.pc \in {"recording", "starting"} /\ threads' = threads
    BY <1>10, CalledFields DEF Retry, Types
  <2> QED
    BY <2>1, UntouchedAfter
<1>11. CASE GiveUp
  <2>1. turn'.pc \in {"rest", "restarting"} /\ threads' = threads
    BY <1>11 DEF GiveUp, CloseEvents, Closed, Turn
  <2> QED
    BY <2>1, UntouchedAfter
<1>12. CASE Restart
  <2> DEFINE counted == [turn.held EXCEPT !.restarts = @ + 1]
             t == [turn EXCEPT !.again = TRUE, !.restarts = counted.restarts]
  <2>1. turn.held \in Binding
    BY DEF Turn
  <2>2. counted \in Binding /\ counted.restarts \in Nat
    BY <2>1 DEF Binding
  <2>3. Recorded(counted) /\ turn' = Called(t, counted)
    BY <1>12 DEF Restart
  <2> HIDE DEF counted
  <2>4. t \in Turn
    BY <2>2 DEF Turn
  <2> HIDE DEF t
  <2>5. turn'.pc \in {"recording", "starting"}
    BY <2>2, <2>3, <2>4, CalledFields
  <2>6. threads' = [threads EXCEPT ![counted.id].recorded = TRUE]
    BY <2>3 DEF Recorded
  <2> QED
    BY <2>5, <2>6, UntouchedAfter
<1>13. CASE Complete
  <2>1. turn'.pc = "rest" /\ threads' = threads
    BY <1>13 DEF Complete, CloseEvents, Closed, Turn
  <2> QED
    BY <2>1, UntouchedAfter
<1>14. CASE Crash
  BY <1>14, UntouchedAfter DEF Crash
<1>15. CASE \E t \in DOMAIN threads : Forget(t)
  <2>1. PICK t \in DOMAIN threads : Forget(t)
    BY <1>15
  <2>2. /\ turn' = turn /\ threads' = [threads EXCEPT ![t].alive = FALSE]
        /\ Unknown' = Unknown
    BY <2>1, UnknownAfter DEF Forget
  <2> QED
    BY <2>2, UntouchedAfter
<1>16. CASE UNCHANGED vars
  BY <1>16, UnknownAfter, UntouchedAfter DEF vars
<1> QED
  BY <1>3, <1>4, <1>5, <1>6, <1>7, <1>8, <1>9, <1>10, <1>11, <1>12, <1>13,
     <1>14, <1>15, <1>16 DEF Next

(* What every step does to the turn, as far as the next two arguments go.   *)
LEMMA TurnAfter ==
  ASSUME Types, ToNobody, [Next]_vars
  PROVE  \/ turn' = turn
         \/ turn'.pc = "rest" /\ turn'.open = 0
         \/ turn'.pc \in {"starting", "running", "ended", "failed"}
         \/ turn'.pc = "restarting" /\ turn'.open = 0
         \/ turn'.pc \in {"recording", "noting"} /\ turn'.thread # 0
         \/ turn'.pc = "sending" /\ (setup.provider = "claude" \/ turn'.thread # 0)
<1>1. turn \in Turn /\ threads \in Seq(Thread) /\ Len(threads) + 1 # 0
  BY DEF Types
<1> USE <1>1, RestFields
<1>2. ASSUME NEW t \in Turn, NEW b \in Binding, turn' = Called(t, b)
      PROVE  \/ turn'.pc = "starting"
             \/ turn'.pc = "recording" /\ turn'.thread # 0
             \/ turn'.pc = "sending" /\ setup.provider = "claude"
  BY <1>2, CalledFields
<1>3. CASE Execute
  <2>1. PICK from \in {stored, bound, None} :
          turn' = Called([AtRest EXCEPT !.held = from], from)
    BY <1>3 DEF Execute
  <2>2. from \in Binding /\ [AtRest EXCEPT !.held = from] \in Turn
    BY <2>1 DEF Types, Turn
  <2> QED
    BY <1>2, <2>1, <2>2
<1>4. CASE StartThread
  BY <1>4 DEF StartThread, Turn
<1>5. CASE Record
  BY <1>5 DEF Record, Sends, ToNobody, Turn
<1>6. CASE Send
  BY <1>6 DEF Send, SendTo, SendToNew, Turn
<1>7. CASE Answer
  BY <1>7 DEF Answer, Turn
<1>8. CASE Refuse
  BY <1>8 DEF Refuse, Failed, Turn
<1>9. CASE RecordFails
  BY <1>9 DEF RecordFails, Failed, Turn
<1>10. CASE Retry
  BY <1>2, <1>10 DEF Retry, Types
<1>11. CASE GiveUp
  BY <1>11 DEF GiveUp, CloseEvents, Closed, Turn
<1>12. CASE Restart
  <2> DEFINE counted == [turn.held EXCEPT !.restarts = @ + 1]
             t == [turn EXCEPT !.again = TRUE, !.restarts = counted.restarts]
  <2>1. turn.held \in Binding
    BY DEF Turn
  <2>2. counted \in Binding /\ counted.restarts \in Nat
    BY <2>1 DEF Binding
  <2>3. turn' = Called(t, counted)
    BY <1>12 DEF Restart
  <2> HIDE DEF counted
  <2>4. t \in Turn
    BY <2>2 DEF Turn
  <2> HIDE DEF t
  <2> QED
    BY <1>2, <2>2, <2>3, <2>4
<1>13. CASE Complete
  BY <1>13 DEF Complete, CloseEvents, Closed, Turn
<1>14. CASE Crash
  BY <1>14 DEF Crash
<1>15. CASE \E t \in DOMAIN threads : Forget(t)
  BY <1>15 DEF Forget
<1>16. CASE UNCHANGED vars
  BY <1>16 DEF vars
<1> QED
  BY <1>3, <1>4, <1>5, <1>6, <1>7, <1>8, <1>9, <1>10, <1>11, <1>12, <1>13,
     <1>14, <1>15, <1>16 DEF Next

LEMMA InitInv == Init => IInv
<1> SUFFICES ASSUME Init PROVE IInv
  OBVIOUS
<1>1. Types /\ Counted
  BY InitTypes, InitCounted
<1>2. Unknown = {}
  BY DEF Init, Unknown, NewThread
<1>3. Stray = {}
  BY <1>2 DEF Stray
<1>4. Lost
  BY <1>3, FS_EmptySet DEF Lost, Init
<1> QED
  BY <1>1, <1>2, <1>4, RestFields DEF IInv, Init, CodexRecorded, ToNobody, EventsBalanced

LEMMA InvKept == IInv /\ [Next]_vars => IInv'
<1> SUFFICES ASSUME IInv, [Next]_vars PROVE IInv'
  OBVIOUS
<1>1. Types' /\ Counted' /\ Lost' /\ CodexRecorded'
  BY TypesKept, CountedKept, LostKept, CodexKept DEF IInv
<1>2. setup' = setup /\ setup.provider \in {"codex", "claude"}
  BY SetupFields DEF IInv, Types, Next, Execute, StartThread, Record, Send, Answer, Refuse,
         RecordFails, Retry, GiveUp, Restart, Complete, Crash, Forget, vars
<1>3. ToNobody' /\ EventsBalanced'
  BY <1>2, TurnAfter DEF IInv, ToNobody, EventsBalanced
<1> QED
  BY <1>1, <1>3 DEF IInv

(* recordProviderSession right after startThread: a thread the run does not *)
(* know of costs a crash or a failure each, and no turn of Codex is in one. *)
THEOREM TurnKeepsThreads == Spec => []ThreadsKept
<1>1. IInv => ThreadsKept
  <2> SUFFICES ASSUME IInv, setup.recording
               PROVE  /\ Cardinality(Unknown) <= faults +
                            (IF turn.pc \in {"recording", "noting"} THEN 1 ELSE 0)
                      /\ setup.provider = "codex" => \A t \in Unknown : threads[t].received = 0
    BY DEF ThreadsKept, Unknown
  <2>1. /\ IsFiniteSet(Stray) /\ Cardinality(Stray) \in Nat
        /\ Cardinality(Stray) <= faults /\ faults \in Nat
    BY StrayFinite DEF IInv, Lost, Types
  <2>2. CASE turn.pc \in {"recording", "noting"}
    <3>1. Unknown \in SUBSET (Stray \cup {turn.thread})
      BY <2>2 DEF Stray, InHand
    <3>2. Cardinality(Unknown) <= Cardinality(Stray) + 1 /\ Cardinality(Unknown) \in Nat
      BY <2>1, <3>1, OneMore
    <3> QED
      BY <2>1, <2>2, <3>2 DEF IInv, CodexRecorded
  <2>3. CASE turn.pc \notin {"recording", "noting"}
    <3>1. Unknown = Stray
      BY <2>3 DEF Stray, InHand
    <3> QED
      BY <2>1, <2>3, <3>1 DEF IInv, CodexRecorded
  <2> QED
    BY <2>2, <2>3
<1> QED
  BY <1>1, InitInv, InvKept, PTL DEF Spec

(* closeModelEvents: an execution that ended has closed every model.started *)
(* it emitted, whatever was repeated and restarted before.                  *)
THEOREM TurnEventsBalanced == Spec => []EventsBalanced
<1>1. IInv => EventsBalanced
  BY DEF IInv
<1> QED
  BY <1>1, InitInv, InvKept, PTL DEF Spec
=============================================================================
