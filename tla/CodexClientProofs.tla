-------------------------- MODULE CodexClientProofs --------------------------
(***************************************************************************)
(* Proofs about CodexClient: a call ends with the turn it asked for, and   *)
(* no completion of a turn is missed.                                      *)
(***************************************************************************)
EXTENDS CodexClient, TLAPS

Phases == Waiting \cup {"idle", "done", "failed"}

Calls == [pc : Phases, conn : Nat, id : Nat, turn : Nat]

Outgoing == [kind : {"initialize", "initialized", "start", "reply"}, id : Nat,
             ref : Nat \cup Callers]

Incoming == [kind : {"answer", "error", "ask", "completed"}, id : Nat, ref : Nat]

Sockets == [state : {"connecting", "open", "closing", "closed"}, listening : BOOLEAN,
            shaken : BOOLEAN, out : Seq(Outgoing), in : Seq(Incoming)]

ServedTurns == [conn : Nat, caller : Callers, id : Nat, ask : Nat,
                state : {"running", "asking", "completed"}]

Types ==
  /\ setup \in Setups
  /\ calls \in [Callers -> Calls]
  /\ sockets \in Seq(Sockets) /\ socket \in 0 .. Len(sockets)
  /\ nextId \in Nat \ {0} /\ asks \in Nat
  /\ pending \subseteq [id : Nat \ {0}, caller : Callers]
  /\ turns \subseteq [turn : Nat, caller : Callers]
  /\ handling \subseteq [conn : Nat, id : Nat]
  /\ served \in Seq(ServedTurns)

(* The numbers given out so far are below nextId, each to one request.      *)
Numbers ==
  /\ \A p \in pending : p.id < nextId
  /\ \A p, q \in pending : p.id = q.id => p = q
  /\ \A c \in Callers : calls[c].id < nextId

(* Nobody waits under this number for the start of a turn.                  *)
NoStart(id, cs) == \A c \in Callers : cs[c].id = id => cs[c].pc # "starting"

(* Whoever waits under this number is this caller.                          *)
Asked(id, c, ps) == \A p \in ps : p.id = id => p.caller = c

(* A message to the server is of the caller it names.                       *)
GoodOut(m, n, ps, cs) ==
  /\ m.kind = "start" => m.id < n /\ m.ref \in Callers /\ Asked(m.id, m.ref, ps)
  /\ m.kind = "initialize" => m.id < n /\ NoStart(m.id, cs)

(* An answer is about a turn of the caller who waits for it.                *)
GoodIn(m, n, ps, cs, sv, line) ==
  /\ m.kind = "answer" =>
       /\ m.id < n
       /\ IF m.ref = 0 THEN NoStart(m.id, cs)
          ELSE /\ m.ref \in 1 .. Len(sv) /\ Asked(m.id, sv[m.ref].caller, ps)
               /\ line => sv[m.ref].state = "completed"
  /\ m.kind = "completed" =>
       m.id = 0 /\ m.ref \in 1 .. Len(sv) /\ sv[m.ref].state = "completed"

GoodOuts(q, n, ps, cs) == \A i \in 1 .. Len(q) : GoodOut(q[i], n, ps, cs)

GoodIns(q, n, ps, cs, sv, line) ==
  \A i \in 1 .. Len(q) : GoodIn(q[i], n, ps, cs, sv, line)

AllGood(all, n, ps, cs, sv, line) ==
  \A s \in 1 .. Len(all) :
    GoodOuts(all[s].out, n, ps, cs) /\ GoodIns(all[s].in, n, ps, cs, sv, line)

Messages == AllGood(sockets, nextId, pending, calls, served, setup.line)

(* On a line the answer to a turn that runs is yet to come.                 *)
Owed ==
  setup.line => \A t \in 1 .. Len(served) :
    served[t].id < nextId /\ Asked(served[t].id, served[t].caller, pending)

(* A call has the turn it asked for, or on a line none.                     *)
OwnTurn(k, c, sv, line) ==
  (k.pc \in {"answered", "turn"} \/ (k.pc = "done" /\ ~ (line /\ k.turn = 0))) =>
    /\ k.turn \in 1 .. Len(sv) /\ sv[k.turn].caller = c
    /\ k.pc = "done" => sv[k.turn].state = "completed"

Turns ==
  /\ \A c \in Callers : OwnTurn(calls[c], c, served, setup.line)
  /\ \A t \in turns : calls[t.caller].pc = "turn" /\ calls[t.caller].turn = t.turn

AnswersInv == Types /\ Numbers /\ Messages /\ Owed /\ Turns

-----------------------------------------------------------------------------
(* For NoTurnMissed.                                                        *)

Completed(t) == Message("completed", 0, t)

(* Every call that connects has a socket of its own.                        *)
Connections ==
  /\ \A c \in Callers :
       /\ calls[c].pc \in {"connecting", "handshake"} => calls[c].conn \in 1 .. Len(sockets)
       /\ calls[c].pc = "connecting" => sockets[calls[c].conn].state = "connecting"
  /\ \A c, d \in Callers :
       calls[c].pc = "connecting" /\ calls[d].pc = "connecting" /\ calls[c].conn = calls[d].conn
         => c = d

(* Sockets that are not open yet have carried nothing, closed ones have     *)
(* nothing left.                                                            *)
Carried ==
  /\ \A s \in 1 .. Len(sockets) :
       /\ sockets[s].state = "connecting" => ~ sockets[s].listening /\ sockets[s].out = << >>
       /\ sockets[s].state \in {"connecting", "closed"} => sockets[s].in = << >>
  /\ \A t \in 1 .. Len(served) :
       served[t].conn \in 1 .. Len(sockets) /\ sockets[served[t].conn].state # "connecting"

(* A completion comes after the answer it belongs to.                       *)
InSequence(q, s, sv) ==
  \A i \in 1 .. Len(q) :
    q[i].kind = "answer" /\ q[i].ref # 0 =>
      /\ sv[q[i].ref].conn = s
      /\ sv[q[i].ref].state = "completed" =>
           \E j \in i + 1 .. Len(q) : q[j] = Completed(q[i].ref)

(* And while a call waits for it, it is on its way.                         *)
Coming(t, ks, sv) ==
  LET k == ks[sv[t].conn] IN
    /\ k.listening /\ k.state \in {"open", "closing"}
    /\ sv[t].state = "completed" => Contains(k.in, Completed(t))

Sequenced ==
  ~ setup.line => \A s \in 1 .. Len(sockets) : InSequence(sockets[s].in, s, served)

(* Who waits for a turn to be completed is in the table; on a line nobody   *)
(* does.                                                                    *)
Listed ==
  /\ \A c \in Callers : calls[c].pc = "turn" => [turn |-> calls[c].turn, caller |-> c] \in turns
  /\ setup.line => \A c \in Callers : calls[c].pc \notin {"answered", "turn"}

Awaited ==
  ~ setup.batched =>
    \A c \in Callers : calls[c].pc \in {"answered", "turn"} =>
      Coming(calls[c].turn, sockets, served)

CompletionsInv == Connections /\ Carried /\ Sequenced /\ Listed /\ Awaited

IInv == AnswersInv /\ CompletionsInv

-----------------------------------------------------------------------------
(* Sequences and sockets.                                                   *)

LEMMA AppendElems ==
  ASSUME NEW S, NEW q \in Seq(S), NEW m \in S
  PROVE  /\ Append(q, m) \in Seq(S) /\ Len(Append(q, m)) = Len(q) + 1
         /\ \A i \in 1 .. Len(q) : Append(q, m)[i] = q[i]
         /\ Append(q, m)[Len(q) + 1] = m
OBVIOUS

LEMMA TailElems ==
  ASSUME NEW S, NEW q \in Seq(S), q # << >>
  PROVE  /\ Tail(q) \in Seq(S) /\ Len(Tail(q)) = Len(q) - 1 /\ Len(q) \in Nat \ {0}
         /\ \A i \in 1 .. Len(q) - 1 : Tail(q)[i] = q[i + 1]
         /\ Head(q) = q[1] /\ Head(q) \in S
OBVIOUS

LEMMA Replaced ==
  ASSUME NEW S, NEW q \in Seq(S), NEW s \in 1 .. Len(q), NEW k \in S
  PROVE  /\ [q EXCEPT ![s] = k] \in Seq(S) /\ Len([q EXCEPT ![s] = k]) = Len(q)
         /\ \A r \in 1 .. Len(q) : [q EXCEPT ![s] = k][r] = IF r = s THEN k ELSE q[r]
OBVIOUS

(* What is in flight to the server stays good with one message more, or one *)
(* less; and so does what is in flight to the client.                       *)
LEMMA OutAppended ==
  ASSUME NEW n, NEW ps, NEW cs, NEW q \in Seq(Outgoing), GoodOuts(q, n, ps, cs),
         NEW m \in Outgoing, GoodOut(m, n, ps, cs)
  PROVE  Append(q, m) \in Seq(Outgoing) /\ GoodOuts(Append(q, m), n, ps, cs)
BY AppendElems DEF GoodOuts

LEMMA OutTail ==
  ASSUME NEW n, NEW ps, NEW cs, NEW q \in Seq(Outgoing), q # << >>,
         GoodOuts(q, n, ps, cs)
  PROVE  /\ Tail(q) \in Seq(Outgoing) /\ GoodOuts(Tail(q), n, ps, cs)
         /\ Head(q) \in Outgoing /\ GoodOut(Head(q), n, ps, cs)
BY TailElems DEF GoodOuts

LEMMA InAppended ==
  ASSUME NEW n, NEW ps, NEW cs, NEW sv, NEW line,
         NEW q \in Seq(Incoming), GoodIns(q, n, ps, cs, sv, line),
         NEW m \in Incoming, GoodIn(m, n, ps, cs, sv, line)
  PROVE  /\ Append(q, m) \in Seq(Incoming)
         /\ GoodIns(Append(q, m), n, ps, cs, sv, line)
BY AppendElems DEF GoodIns

LEMMA InTail ==
  ASSUME NEW n, NEW ps, NEW cs, NEW sv, NEW line,
         NEW q \in Seq(Incoming), q # << >>, GoodIns(q, n, ps, cs, sv, line)
  PROVE  /\ Tail(q) \in Seq(Incoming) /\ GoodIns(Tail(q), n, ps, cs, sv, line)
         /\ Head(q) \in Incoming /\ GoodIn(Head(q), n, ps, cs, sv, line)
BY TailElems DEF GoodIns

(* One socket changes.                                                      *)
LEMMA OneChanged ==
  ASSUME NEW n, NEW ps, NEW cs, NEW sv, NEW line,
         NEW all \in Seq(Sockets), AllGood(all, n, ps, cs, sv, line),
         NEW s \in 1 .. Len(all), NEW k \in Sockets,
         GoodOuts(k.out, n, ps, cs), GoodIns(k.in, n, ps, cs, sv, line)
  PROVE  /\ [all EXCEPT ![s] = k] \in Seq(Sockets)
         /\ Len([all EXCEPT ![s] = k]) = Len(all)
         /\ \A r \in 1 .. Len(all) :
              [all EXCEPT ![s] = k][r] = IF r = s THEN k ELSE all[r]
         /\ AllGood([all EXCEPT ![s] = k], n, ps, cs, sv, line)
<1> DEFINE new == [all EXCEPT ![s] = k]
<1>1. /\ new \in Seq(Sockets) /\ Len(new) = Len(all)
      /\ \A r \in 1 .. Len(all) : new[r] = IF r = s THEN k ELSE all[r]
  BY Replaced
<1> HIDE DEF new
<1>2. AllGood(new, n, ps, cs, sv, line)
  BY <1>1 DEF AllGood
<1>3. QED
  BY <1>1, <1>2 DEF new

(* A message is sent.                                                       *)
LEMMA SentShape ==
  ASSUME NEW all \in Seq(Sockets), NEW s \in 1 .. Len(all), NEW m \in Outgoing
  PROVE  /\ Sent(all, s, m) \in Seq(Sockets) /\ Len(Sent(all, s, m)) = Len(all)
         /\ \A r \in 1 .. Len(all) :
              /\ Sent(all, s, m)[r].state = all[r].state
              /\ Sent(all, s, m)[r].listening = all[r].listening
              /\ Sent(all, s, m)[r].in = all[r].in
              /\ all[r].state = "connecting" => Sent(all, s, m)[r].out = all[r].out
<1>1. CASE all[s].state = "open"
  <2> DEFINE k == [all[s] EXCEPT !.out = Append(@, m)]
  <2>1. all[s] \in Sockets
    OBVIOUS
  <2>2. Append(all[s].out, m) \in Seq(Outgoing)
    BY <2>1 DEF Sockets
  <2>3. /\ k.in = all[s].in /\ k.state = all[s].state /\ k.listening = all[s].listening
        /\ k \in Sockets
    BY <2>1, <2>2 DEF Sockets
  <2>4. Sent(all, s, m) = [all EXCEPT ![s] = k]
    BY <1>1 DEF Sent
  <2> HIDE DEF k
  <2>5. /\ [all EXCEPT ![s] = k] \in Seq(Sockets) /\ Len([all EXCEPT ![s] = k]) = Len(all)
        /\ \A r \in 1 .. Len(all) :
             [all EXCEPT ![s] = k][r] = IF r = s THEN k ELSE all[r]
    BY <2>3
  <2>6. QED
    BY <2>3, <2>4, <2>5, <1>1
<1>2. CASE all[s].state # "open"
  BY <1>2 DEF Sent
<1>3. QED
  BY <1>1, <1>2

LEMMA SentGood ==
  ASSUME NEW n, NEW ps, NEW cs, NEW sv, NEW line,
         NEW all \in Seq(Sockets), AllGood(all, n, ps, cs, sv, line),
         NEW s \in 1 .. Len(all), NEW m \in Outgoing, GoodOut(m, n, ps, cs)
  PROVE  /\ Sent(all, s, m) \in Seq(Sockets) /\ Len(Sent(all, s, m)) = Len(all)
         /\ AllGood(Sent(all, s, m), n, ps, cs, sv, line)
         /\ \A r \in 1 .. Len(all) :
              /\ Sent(all, s, m)[r].state = all[r].state
              /\ Sent(all, s, m)[r].listening = all[r].listening
              /\ Sent(all, s, m)[r].in = all[r].in
              /\ all[r].state = "connecting" => Sent(all, s, m)[r].out = all[r].out
<1>1. CASE all[s].state = "open"
  <2> DEFINE k == [all[s] EXCEPT !.out = Append(@, m)]
  <2>1. all[s] \in Sockets
    OBVIOUS
  <2>2. all[s].out \in Seq(Outgoing) /\ GoodOuts(all[s].out, n, ps, cs)
        /\ GoodIns(all[s].in, n, ps, cs, sv, line)
    BY <2>1 DEF AllGood, Sockets
  <2>3. Append(all[s].out, m) \in Seq(Outgoing) /\ GoodOuts(Append(all[s].out, m), n, ps, cs)
    BY <2>2, OutAppended
  <2>4. /\ k.out = Append(all[s].out, m) /\ k.in = all[s].in /\ k.state = all[s].state
        /\ k.listening = all[s].listening
    BY <2>1 DEF Sockets
  <2>5. k \in Sockets
    BY <2>1, <2>3 DEF Sockets
  <2>6. Sent(all, s, m) = [all EXCEPT ![s] = k]
    BY <1>1 DEF Sent
  <2> HIDE DEF k
  <2>7. GoodOuts(k.out, n, ps, cs) /\ GoodIns(k.in, n, ps, cs, sv, line)
    BY <2>2, <2>3, <2>4
  <2>8. /\ [all EXCEPT ![s] = k] \in Seq(Sockets) /\ Len([all EXCEPT ![s] = k]) = Len(all)
        /\ AllGood([all EXCEPT ![s] = k], n, ps, cs, sv, line)
        /\ \A r \in 1 .. Len(all) :
             [all EXCEPT ![s] = k][r] = IF r = s THEN k ELSE all[r]
    BY <2>5, <2>7, OneChanged
  <2>9. QED
    BY <2>4, <2>6, <2>8, <1>1
<1>2. CASE all[s].state # "open"
  BY <1>2 DEF Sent
<1>3. QED
  BY <1>1, <1>2

(* The message the client reads is gone.                                    *)
Read(all, s) == [all EXCEPT ![s].in = Tail(@)]

LEMMA ReadGood ==
  ASSUME NEW n, NEW ps, NEW cs, NEW sv, NEW line,
         NEW all \in Seq(Sockets), AllGood(all, n, ps, cs, sv, line),
         NEW s \in 1 .. Len(all), all[s].in # << >>
  PROVE  /\ Read(all, s) \in Seq(Sockets) /\ Len(Read(all, s)) = Len(all)
         /\ AllGood(Read(all, s), n, ps, cs, sv, line)
         /\ \A r \in 1 .. Len(all) :
              /\ Read(all, s)[r].state = all[r].state
              /\ Read(all, s)[r].listening = all[r].listening
              /\ Read(all, s)[r].in = IF r = s THEN Tail(all[s].in) ELSE all[r].in
              /\ Read(all, s)[r].out = all[r].out
<1> DEFINE k == [all[s] EXCEPT !.in = Tail(@)]
           new == Read(all, s)
<1>1. all[s] \in Sockets
  OBVIOUS
<1>2. all[s].in \in Seq(Incoming) /\ GoodOuts(all[s].out, n, ps, cs)
      /\ GoodIns(all[s].in, n, ps, cs, sv, line)
  BY <1>1 DEF AllGood, Sockets
<1>3. Tail(all[s].in) \in Seq(Incoming) /\ GoodIns(Tail(all[s].in), n, ps, cs, sv, line)
  BY <1>2, InTail
<1>4. /\ k.in = Tail(all[s].in) /\ k.out = all[s].out /\ k.state = all[s].state
      /\ k.listening = all[s].listening
  BY <1>1 DEF Sockets
<1>5. k \in Sockets
  BY <1>1, <1>3 DEF Sockets
<1>6. new = [all EXCEPT ![s] = k]
  BY DEF Read
<1> HIDE DEF k, new
<1>7. GoodOuts(k.out, n, ps, cs) /\ GoodIns(k.in, n, ps, cs, sv, line)
  BY <1>2, <1>3, <1>4
<1>8. /\ [all EXCEPT ![s] = k] \in Seq(Sockets) /\ Len([all EXCEPT ![s] = k]) = Len(all)
      /\ AllGood([all EXCEPT ![s] = k], n, ps, cs, sv, line)
      /\ \A r \in 1 .. Len(all) : [all EXCEPT ![s] = k][r] = IF r = s THEN k ELSE all[r]
  BY <1>5, <1>7, OneChanged
<1>9. /\ new \in Seq(Sockets) /\ Len(new) = Len(all)
      /\ AllGood(new, n, ps, cs, sv, line)
      /\ \A r \in 1 .. Len(all) :
           /\ new[r].state = all[r].state /\ new[r].listening = all[r].listening
           /\ new[r].in = IF r = s THEN Tail(all[s].in) ELSE all[r].in
           /\ new[r].out = all[r].out
  BY <1>4, <1>6, <1>8
<1>10. QED
  BY <1>9 DEF new

-----------------------------------------------------------------------------
(* What was good stays good as the client goes on.                          *)

Later(n, ps, cs, sv, n2, ps2, cs2, sv2) ==
  /\ n2 \in Nat /\ n2 >= n
  /\ \A p \in ps2 : p \in ps \/ p.id >= n
  /\ \A c \in Callers : cs2[c].pc = "starting" =>
       (cs[c].pc = "starting" /\ cs2[c].id = cs[c].id) \/ cs2[c].id >= n
  /\ sv2 \in Seq(ServedTurns) /\ Len(sv2) >= Len(sv)
  /\ \A t \in 1 .. Len(sv) :
       /\ sv2[t].caller = sv[t].caller
       /\ sv[t].state = "completed" => sv2[t].state = "completed"

Ids(ps, cs) == (\A p \in ps : p.id \in Nat) /\ (\A c \in Callers : cs[c].id \in Nat)

LEMMA OutLasts ==
  ASSUME NEW n \in Nat, NEW ps, NEW cs, NEW sv \in Seq(ServedTurns),
         NEW n2, NEW ps2, NEW cs2, NEW sv2, Ids(ps2, cs2),
         Later(n, ps, cs, sv, n2, ps2, cs2, sv2),
         NEW m \in Outgoing, GoodOut(m, n, ps, cs)
  PROVE  GoodOut(m, n2, ps2, cs2)
<1>1. m.id \in Nat
  BY DEF Outgoing
<1>2. QED
  BY <1>1 DEF GoodOut, Later, NoStart, Asked, Ids

LEMMA InLasts ==
  ASSUME NEW n \in Nat, NEW ps, NEW cs, NEW sv \in Seq(ServedTurns),
         NEW n2, NEW ps2, NEW cs2, NEW sv2, Ids(ps2, cs2),
         Later(n, ps, cs, sv, n2, ps2, cs2, sv2),
         NEW line, NEW m \in Incoming, GoodIn(m, n, ps, cs, sv, line)
  PROVE  GoodIn(m, n2, ps2, cs2, sv2, line)
<1>1. m.id \in Nat /\ m.ref \in Nat
  BY DEF Incoming
<1>2. Len(sv) \in Nat /\ Len(sv2) \in Nat /\ Len(sv) <= Len(sv2)
  BY DEF Later
<1>3. CASE m.kind = "answer" /\ m.ref = 0
  BY <1>1, <1>3 DEF GoodIn, Later, NoStart, Ids
<1>4. CASE m.kind = "answer" /\ m.ref # 0
  <2>1. m.ref \in 1 .. Len(sv) /\ m.id < n /\ Asked(m.id, sv[m.ref].caller, ps)
        /\ (line => sv[m.ref].state = "completed")
    BY <1>4 DEF GoodIn
  <2>2. m.ref \in 1 .. Len(sv2) /\ m.id < n2 /\ sv2[m.ref].caller = sv[m.ref].caller
        /\ (line => sv2[m.ref].state = "completed")
    BY <1>1, <1>2, <2>1 DEF Later
  <2>3. Asked(m.id, sv[m.ref].caller, ps2)
    BY <1>1, <2>1 DEF Asked, Later, Ids
  <2>4. QED
    BY <1>4, <2>2, <2>3 DEF GoodIn
<1>5. CASE m.kind = "completed"
  BY <1>1, <1>2, <1>5 DEF GoodIn, Later
<1>6. CASE m.kind \notin {"answer", "completed"}
  BY <1>6 DEF GoodIn
<1>7. QED
  BY <1>3, <1>4, <1>5, <1>6

LEMMA AllLasts ==
  ASSUME NEW n \in Nat, NEW ps, NEW cs, NEW sv \in Seq(ServedTurns),
         NEW n2, NEW ps2, NEW cs2, NEW sv2, Ids(ps2, cs2),
         Later(n, ps, cs, sv, n2, ps2, cs2, sv2),
         NEW line, NEW all \in Seq(Sockets), AllGood(all, n, ps, cs, sv, line)
  PROVE  AllGood(all, n2, ps2, cs2, sv2, line)
<1>1. SUFFICES ASSUME NEW s \in 1 .. Len(all)
               PROVE  /\ GoodOuts(all[s].out, n2, ps2, cs2)
                      /\ GoodIns(all[s].in, n2, ps2, cs2, sv2, line)
  BY DEF AllGood
<1>2. all[s] \in Sockets
  OBVIOUS
<1>3. all[s].out \in Seq(Outgoing) /\ all[s].in \in Seq(Incoming)
      /\ GoodOuts(all[s].out, n, ps, cs) /\ GoodIns(all[s].in, n, ps, cs, sv, line)
  BY <1>2 DEF AllGood, Sockets
<1> DEFINE out == all[s].out
           in == all[s].in
<1> HIDE DEF out, in
<1>4. out \in Seq(Outgoing) /\ in \in Seq(Incoming)
      /\ GoodOuts(out, n, ps, cs) /\ GoodIns(in, n, ps, cs, sv, line)
  BY <1>3 DEF out, in
<1>5. ASSUME NEW i \in 1 .. Len(out)
      PROVE  GoodOut(out[i], n2, ps2, cs2)
  <2>1. out[i] \in Outgoing /\ GoodOut(out[i], n, ps, cs)
    BY <1>4 DEF GoodOuts
  <2>2. QED
    BY <2>1, OutLasts
<1>6. ASSUME NEW i \in 1 .. Len(in)
      PROVE  GoodIn(in[i], n2, ps2, cs2, sv2, line)
  <2>1. in[i] \in Incoming /\ GoodIn(in[i], n, ps, cs, sv, line)
    BY <1>4 DEF GoodIns
  <2>2. QED
    BY <2>1, InLasts
<1>7. GoodOuts(out, n2, ps2, cs2) /\ GoodIns(in, n2, ps2, cs2, sv2, line)
  BY <1>5, <1>6 DEF GoodOuts, GoodIns
<1>8. QED
  BY <1>7 DEF out, in

(* The client goes on: what was asked, and who waits for it.                *)
Onward == Later(nextId, pending, calls, served, nextId', pending', calls', served')

-----------------------------------------------------------------------------
(* Requests.                                                                *)

(* What a step with SendRequest leaves of the table and the calls.          *)
LEMMA RequestEntered ==
  ASSUME Types, Numbers, NEW c \in Callers, NEW kind \in {"start", "initialize"},
         NEW all \in Seq(Sockets), Len(all) = Len(sockets), NEW rest \in SUBSET pending,
         SendRequest(c, kind, all, rest), UNCHANGED served
  PROVE  /\ nextId' \in Nat \ {0} /\ calls' \in [Callers -> Calls]
         /\ pending' \subseteq [id : Nat \ {0}, caller : Callers]
         /\ Numbers' /\ Onward
         /\ \A d \in Callers \ {c} : calls'[d] = calls[d]
         /\ calls'[c].pc \in {"failed", "handshake", "starting"}
         /\ calls'[c].conn = calls[c].conn
         /\ kind = "start" => calls'[c].pc # "handshake"
         /\ socket # 0 /\ kind = "initialize" => calls'[c].pc # "starting"
<1> USE DEF Types
<1>1. CASE socket = 0
  <2>1. /\ nextId' = nextId /\ pending' = rest
        /\ calls' = [calls EXCEPT ![c].pc = "failed"]
    BY <1>1 DEF SendRequest
  <2>2. calls' \in [Callers -> Calls]
        /\ \A d \in Callers : calls'[d].id = calls[d].id /\ (d # c => calls'[d] = calls[d])
    BY <2>1 DEF Calls, Phases
  <2>3. calls'[c].pc = "failed" /\ calls'[c].conn = calls[c].conn
    BY <2>1 DEF Calls
  <2>4. Numbers'
    BY <2>1, <2>2 DEF Numbers
  <2>5. Onward
    BY <2>1, <2>2, <2>3 DEF Onward, Later
  <2>6. QED
    BY <2>1, <2>2, <2>3, <2>4, <2>5, <1>1
<1>2. CASE socket # 0
  <2> DEFINE pc == IF all[socket].state = "connecting" THEN "failed"
                   ELSE IF kind = "initialize" THEN "handshake" ELSE "starting"
  <2>1. /\ nextId' = nextId + 1 /\ pending' = rest \cup {[id |-> nextId, caller |-> c]}
        /\ calls' = [calls EXCEPT ![c].id = nextId, ![c].pc = pc]
    BY <1>2 DEF SendRequest
  <2>2. pc \in {"failed", "handshake", "starting"} /\ (kind = "initialize" => pc # "starting")
        /\ (kind = "start" => pc # "handshake")
    OBVIOUS
  <2> HIDE DEF pc
  <2>3. calls' \in [Callers -> Calls]
        /\ calls'[c].id = nextId /\ calls'[c].pc = pc /\ calls'[c].conn = calls[c].conn
        /\ \A d \in Callers \ {c} : calls'[d] = calls[d]
    <3> DEFINE k == [calls[c] EXCEPT !.id = nextId, !.pc = pc]
    <3>1. calls[c] \in Calls
      OBVIOUS
    <3>2. k.id = nextId /\ k.pc = pc /\ k.conn = calls[c].conn
      BY <3>1 DEF Calls
    <3>3. k \in Calls
      BY <3>1, <2>2 DEF Calls, Phases, Waiting
    <3>4. calls' = [calls EXCEPT ![c] = k]
      BY <2>1
    <3> HIDE DEF k
    <3>5. QED
      BY <3>2, <3>3, <3>4
  <2>4. Numbers'
    <3>1. \A p \in pending' : p.id < nextId'
      BY <2>1 DEF Numbers
    <3>2. \A p, q \in pending' : p.id = q.id => p = q
      BY <2>1 DEF Numbers
    <3>3. \A d \in Callers : calls[d].id \in Nat /\ calls[d].id < nextId
      BY DEF Numbers, Calls
    <3>4. \A d \in Callers : calls'[d].id < nextId'
      BY <2>1, <2>3, <3>3
    <3>5. QED
      BY <3>1, <3>2, <3>4 DEF Numbers
  <2>5. Onward
    BY <2>1, <2>3 DEF Onward, Later, Numbers
  <2>6. QED
    BY <2>1, <2>2, <2>3, <2>4, <2>5, <1>2
<1>3. QED
  BY <1>1, <1>2

(* And of the sockets.                                                      *)
LEMMA RequestSent ==
  ASSUME Types, Numbers, NEW c \in Callers, NEW kind \in {"start", "initialize"},
         NEW all \in Seq(Sockets), Len(all) = Len(sockets), NEW rest \in SUBSET pending,
         AllGood(all, nextId, pending, calls, served, setup.line),
         SendRequest(c, kind, all, rest), UNCHANGED << served, setup >>
  PROVE  /\ sockets' \in Seq(Sockets) /\ Len(sockets') = Len(all)
         /\ Messages'
         /\ \A r \in 1 .. Len(all) :
              /\ sockets'[r].state = all[r].state
              /\ sockets'[r].listening = all[r].listening
              /\ sockets'[r].in = all[r].in
              /\ all[r].state = "connecting" => sockets'[r].out = all[r].out
<1> USE DEF Types
<1>1. /\ nextId' \in Nat \ {0} /\ calls' \in [Callers -> Calls]
      /\ pending' \subseteq [id : Nat \ {0}, caller : Callers]
      /\ Numbers' /\ Onward
      /\ \A d \in Callers \ {c} : calls'[d] = calls[d]
      /\ socket # 0 /\ kind = "initialize" => calls'[c].pc # "starting"
  BY RequestEntered
<1>2. Ids(pending', calls')
  BY <1>1 DEF Ids, Calls
<1>3. AllGood(all, nextId', pending', calls', served', setup.line)
  BY <1>1, <1>2, AllLasts DEF Onward
<1>4. CASE socket = 0
  BY <1>3, <1>4 DEF SendRequest, Messages
<1>5. CASE socket # 0
  <2> DEFINE m == Message(kind, nextId, c)
  <2>1. sockets' = Sent(all, socket, m) /\ socket \in 1 .. Len(all)
        /\ pending' = rest \cup {[id |-> nextId, caller |-> c]} /\ nextId' = nextId + 1
    BY <1>5 DEF SendRequest
  <2>2. m.kind = kind /\ m.id = nextId /\ m.ref = c /\ m \in Outgoing
    BY DEF Message, Outgoing
  <2> HIDE DEF m
  <2>3. kind = "start" => Asked(nextId, c, pending')
    BY <2>1 DEF Asked, Numbers
  <2>4. kind = "initialize" => NoStart(nextId, calls')
    <3>1. \A d \in Callers : calls[d].id \in Nat /\ calls[d].id < nextId
      BY DEF Numbers, Calls
    <3>2. QED
      BY <1>1, <1>5, <3>1 DEF NoStart
  <2>5. GoodOut(m, nextId', pending', calls')
    BY <2>1, <2>2, <2>3, <2>4 DEF GoodOut
  <2>6. /\ Sent(all, socket, m) \in Seq(Sockets) /\ Len(Sent(all, socket, m)) = Len(all)
        /\ \A r \in 1 .. Len(all) :
             /\ Sent(all, socket, m)[r].state = all[r].state
             /\ Sent(all, socket, m)[r].listening = all[r].listening
             /\ Sent(all, socket, m)[r].in = all[r].in
             /\ all[r].state = "connecting" => Sent(all, socket, m)[r].out = all[r].out
    BY <2>1, <2>2, SentShape
  <2>7. AllGood(Sent(all, socket, m), nextId', pending', calls', served', setup.line)
    BY <1>3, <2>1, <2>2, <2>5, SentGood
  <2>8. QED
    BY <2>1, <2>6, <2>7 DEF Messages
<1>6. QED
  BY <1>4, <1>5

-----------------------------------------------------------------------------
(* What the steps have in common.                                           *)

LEMMA OwedLasts ==
  ASSUME Types, Types', Owed, Onward, UNCHANGED << setup, served >>
  PROVE  Owed'
<1>1. \A t \in 1 .. Len(served) : served[t].id \in Nat
  <2>1. \A t \in 1 .. Len(served) : served[t] \in ServedTurns
    BY DEF Types
  <2>2. QED
    BY <2>1 DEF ServedTurns
<1>2. Ids(pending', calls') /\ nextId \in Nat /\ nextId' \in Nat /\ nextId <= nextId'
  BY DEF Types, Ids, Calls, Onward, Later
<1>3. QED
  BY <1>1, <1>2 DEF Owed, Onward, Later, Asked, Ids

LEMMA MessagesLast ==
  ASSUME Types, Types', Messages, Onward, UNCHANGED << setup, sockets >>
  PROVE  Messages'
<1>1. Ids(pending', calls')
  BY DEF Types, Ids, Calls
<1>2. QED
  BY <1>1, AllLasts DEF Types, Messages, Onward

(* One call fails or waits for an answer again, and nobody waits for its    *)
(* turn.                                                                    *)
LEMMA TurnsKept ==
  ASSUME Types, Turns, NEW c \in Callers, calls[c].pc # "turn",
         \A d \in Callers \ {c} : calls'[d] = calls[d],
         calls'[c].pc \notin {"answered", "turn", "done"},
         UNCHANGED << setup, served, turns >>
  PROVE  Turns'
<1>1. \A d \in Callers : OwnTurn(calls'[d], d, served', setup.line)
  BY DEF Turns, OwnTurn
<1>2. \A t \in turns' : t.caller \in Callers /\ t.caller # c
  BY DEF Turns, Types
<1>3. QED
  BY <1>1, <1>2 DEF Turns

(* Nothing is asked, and whoever waited for the start of a turn has the     *)
(* same number or waits no more.                                            *)
LEMMA OnwardByCalls ==
  ASSUME Types, Numbers, nextId' = nextId, pending' \subseteq pending, served' = served,
         \A c \in Callers : calls'[c].id = calls[c].id
           /\ (calls'[c].pc = "starting" => calls[c].pc = "starting")
  PROVE  Numbers' /\ Onward
BY DEF Types, Numbers, Onward, Later

(* The calls of some callers end otherwise unchanged.                       *)
LEMMA Ended ==
  ASSUME NEW E, NEW pc \in {"failed", "done"}, calls \in [Callers -> Calls],
         calls' = [c \in Callers |-> IF c \in E THEN [calls[c] EXCEPT !.pc = pc]
                                     ELSE calls[c]]
  PROVE  /\ calls' \in [Callers -> Calls]
         /\ \A c \in Callers : /\ calls'[c].id = calls[c].id /\ calls'[c].turn = calls[c].turn
                               /\ calls'[c].conn = calls[c].conn
                               /\ c \in E => calls'[c].pc = pc
                               /\ c \notin E => calls'[c] = calls[c]
BY DEF Calls, Phases, Waiting

LEMMA OneFails ==
  ASSUME NEW c \in Callers, calls \in [Callers -> Calls],
         calls' = [calls EXCEPT ![c].pc = "failed"]
  PROVE  /\ calls' \in [Callers -> Calls] /\ calls'[c].pc = "failed"
         /\ \A d \in Callers : /\ calls'[d].id = calls[d].id
                               /\ d # c => calls'[d] = calls[d]
BY DEF Calls, Phases, Waiting

-----------------------------------------------------------------------------
(* The steps of a call.                                                     *)

LEMMA CallAnswers ==
  ASSUME AnswersInv, NEW c \in Callers, Call(c)
  PROVE  AnswersInv'
<1> USE DEF AnswersInv
<1>1. UNCHANGED << setup, initialized, turns, handling, served, asks >>
      /\ calls[c].pc \in {"idle", "done", "failed"}
  BY DEF Call
<1>2. CASE SendRequest(c, "start", sockets, pending) /\ UNCHANGED socket
  <2>1. /\ nextId' \in Nat \ {0} /\ calls' \in [Callers -> Calls]
        /\ pending' \subseteq [id : Nat \ {0}, caller : Callers]
        /\ Numbers' /\ Onward
        /\ \A d \in Callers \ {c} : calls'[d] = calls[d]
        /\ calls'[c].pc \in {"failed", "handshake", "starting"}
    BY <1>1, <1>2, RequestEntered DEF Types
  <2>2. sockets' \in Seq(Sockets) /\ Len(sockets') = Len(sockets) /\ Messages'
    BY <1>1, <1>2, RequestSent DEF Types, Messages
  <2>3. Types'
    BY <1>1, <1>2, <2>1, <2>2 DEF Types
  <2>4. QED
    BY <1>1, <2>1, <2>2, <2>3, OwedLasts, TurnsKept
<1>3. CASE /\ sockets' = Append(sockets, Connecting)
           /\ socket' = Len(sockets) + 1
           /\ calls' = [calls EXCEPT ![c] = [Idle EXCEPT !.pc = "connecting",
                                                         !.conn = Len(sockets) + 1]]
           /\ UNCHANGED << nextId, pending >>
  <2> DEFINE k == [Idle EXCEPT !.pc = "connecting", !.conn = Len(sockets) + 1]
  <2>1. k \in Calls /\ k.pc = "connecting" /\ k.id = 0
    <3>1. Idle \in Calls /\ Idle.id = 0
      BY DEF Idle, Calls, Phases, Waiting
    <3>2. Len(sockets) + 1 \in Nat
      BY DEF Types
    <3>3. k.pc = "connecting" /\ k.id = 0
      BY <3>1 DEF Calls
    <3>4. k \in Calls
      BY <3>1, <3>2 DEF Calls, Phases, Waiting
    <3>5. QED
      BY <3>3, <3>4
  <2>2. calls' = [calls EXCEPT ![c] = k]
    BY <1>3
  <2> HIDE DEF k
  <2>3. calls' \in [Callers -> Calls] /\ calls'[c] = k
        /\ \A d \in Callers \ {c} : calls'[d] = calls[d]
    BY <2>1, <2>2 DEF Types
  <2>4. Connecting \in Sockets /\ Connecting.out = << >> /\ Connecting.in = << >>
    BY DEF Connecting, Sockets
  <2>5. sockets' \in Seq(Sockets) /\ Len(sockets') = Len(sockets) + 1
        /\ sockets'[Len(sockets) + 1] = Connecting
        /\ \A s \in 1 .. Len(sockets) : sockets'[s] = sockets[s]
    BY <1>3, <2>4, AppendElems DEF Types
  <2>6. Types'
    BY <1>1, <1>3, <2>3, <2>5 DEF Types
  <2>7. Numbers' /\ Onward
    <3>1. nextId' = nextId /\ nextId \in Nat \ {0} /\ pending' = pending
      BY <1>3 DEF Types
    <3>2. \A d \in Callers : calls'[d].id < nextId'
      BY <2>1, <2>3, <3>1 DEF Numbers
    <3>3. Numbers'
      BY <3>1, <3>2 DEF Numbers
    <3>4. Onward
      BY <1>1, <1>3, <2>1, <2>3 DEF Types, Onward, Later
    <3>5. QED
      BY <3>3, <3>4
  <2>8. Ids(pending', calls')
    BY <2>6 DEF Types, Ids, Calls
  <2>9. AllGood(sockets, nextId', pending', calls', served', setup.line)
    BY <2>7, <2>8, AllLasts DEF Types, Messages, Onward
  <2>10. GoodOuts(Connecting.out, nextId', pending', calls')
         /\ GoodIns(Connecting.in, nextId', pending', calls', served', setup.line)
    BY <2>4 DEF GoodOuts, GoodIns
  <2>11. Messages'
    BY <1>1, <2>5, <2>9, <2>10 DEF Messages, AllGood, Types
  <2>12. QED
    BY <1>1, <2>1, <2>3, <2>6, <2>7, <2>11, OwedLasts, TurnsKept
<1>4. QED
  BY <1>2, <1>3 DEF Call

LEMMA OpenedAnswers ==
  ASSUME AnswersInv, Connections, NEW c \in Callers, Opened(c)
  PROVE  AnswersInv'
<1> USE DEF AnswersInv
<1> DEFINE s == calls[c].conn
           k == [sockets[s] EXCEPT !.state = "open", !.listening = TRUE]
           all == [sockets EXCEPT ![s].state = "open", ![s].listening = TRUE]
<1>1. UNCHANGED << setup, socket, initialized, turns, handling, served, asks >>
      /\ calls[c].pc = "connecting" /\ SendRequest(c, "initialize", all, pending)
  BY DEF Opened, budgets
<1>2. s \in 1 .. Len(sockets) /\ sockets[s] \in Sockets
  BY <1>1 DEF Connections, Types
<1>3. k \in Sockets /\ k.out = sockets[s].out /\ k.in = sockets[s].in
  BY <1>2 DEF Sockets
<1>4. all = [sockets EXCEPT ![s] = k]
  OBVIOUS
<1> HIDE DEF k, all, s
<1>5. GoodOuts(k.out, nextId, pending, calls)
      /\ GoodIns(k.in, nextId, pending, calls, served, setup.line)
  BY <1>2, <1>3 DEF Messages, AllGood
<1>6. all \in Seq(Sockets) /\ Len(all) = Len(sockets)
      /\ AllGood(all, nextId, pending, calls, served, setup.line)
  <2>1. sockets \in Seq(Sockets) /\ AllGood(sockets, nextId, pending, calls, served, setup.line)
    BY DEF Types, Messages
  <2>2. [sockets EXCEPT ![s] = k] \in Seq(Sockets)
        /\ Len([sockets EXCEPT ![s] = k]) = Len(sockets)
        /\ AllGood([sockets EXCEPT ![s] = k], nextId, pending, calls, served, setup.line)
    BY <1>2, <1>3, <1>5, <2>1, OneChanged
  <2>3. QED
    BY <1>4, <2>2
<1>7. /\ nextId' \in Nat \ {0} /\ calls' \in [Callers -> Calls]
      /\ pending' \subseteq [id : Nat \ {0}, caller : Callers]
      /\ Numbers' /\ Onward
      /\ \A d \in Callers \ {c} : calls'[d] = calls[d]
      /\ calls'[c].pc \in {"failed", "handshake", "starting"}
  BY <1>1, <1>6, RequestEntered
<1>8. sockets' \in Seq(Sockets) /\ Len(sockets') = Len(sockets) /\ Messages'
  BY <1>1, <1>6, RequestSent
<1>9. Types'
  BY <1>1, <1>7, <1>8 DEF Types
<1>10. QED
  BY <1>1, <1>7, <1>8, <1>9, OwedLasts, TurnsKept

LEMMA AwaitTurnAnswers ==
  ASSUME AnswersInv, NEW c \in Callers, AwaitTurn(c)
  PROVE  AnswersInv'
<1> USE DEF AnswersInv
<1>1. /\ UNCHANGED << setup, socket, nextId, pending, handling, sockets, served, asks >>
      /\ calls[c].pc = "answered" /\ turns' = turns \cup {[turn |-> calls[c].turn, caller |-> c]}
      /\ calls' = [calls EXCEPT ![c].pc = "turn"]
  BY DEF AwaitTurn, budgets
<1>2. calls' \in [Callers -> Calls]
      /\ calls'[c].pc = "turn" /\ calls'[c].turn = calls[c].turn
      /\ \A d \in Callers : calls'[d].id = calls[d].id /\ (d # c => calls'[d] = calls[d])
  BY <1>1 DEF Types, Calls, Phases, Waiting
<1>3. Types'
  BY <1>1, <1>2 DEF Types, Calls
<1>4. Numbers' /\ Onward
  BY <1>1, <1>2, OnwardByCalls
<1>5. Turns'
  <2>1. \A d \in Callers : OwnTurn(calls'[d], d, served', setup.line)
    BY <1>1, <1>2 DEF Turns, OwnTurn
  <2>2. \A t \in turns : t.caller \in Callers /\ t.caller # c
    BY <1>1 DEF Turns, Types
  <2>3. QED
    BY <1>1, <1>2, <2>1, <2>2 DEF Turns
<1>6. QED
  BY <1>1, <1>3, <1>4, <1>5, OwedLasts, MessagesLast

LEMMA MessagesOnward ==
  ASSUME Types, Types', Onward, UNCHANGED setup,
         AllGood(sockets', nextId, pending, calls, served, setup.line)
  PROVE  Messages'
<1>1. Ids(pending', calls')
  BY DEF Types, Ids, Calls
<1>2. QED
  BY <1>1, AllLasts DEF Types, Messages, Onward

(* The state of a socket changes.                                           *)
Restated(all, s, st) == [all EXCEPT ![s].state = st]

LEMMA RestatedShape ==
  ASSUME NEW all \in Seq(Sockets), NEW s \in 1 .. Len(all),
         NEW st \in {"open", "closing", "closed"}
  PROVE  /\ Restated(all, s, st) \in Seq(Sockets) /\ Len(Restated(all, s, st)) = Len(all)
         /\ \A r \in 1 .. Len(all) :
              /\ Restated(all, s, st)[r].state = IF r = s THEN st ELSE all[r].state
              /\ Restated(all, s, st)[r].listening = all[r].listening
              /\ Restated(all, s, st)[r].in = all[r].in
              /\ Restated(all, s, st)[r].out = all[r].out
<1> DEFINE k == [all[s] EXCEPT !.state = st]
<1>1. all[s] \in Sockets
  OBVIOUS
<1>2. /\ k \in Sockets /\ k.in = all[s].in /\ k.out = all[s].out /\ k.state = st
      /\ k.listening = all[s].listening
  BY <1>1 DEF Sockets
<1>3. Restated(all, s, st) = [all EXCEPT ![s] = k]
  BY DEF Restated
<1> HIDE DEF k
<1>4. /\ [all EXCEPT ![s] = k] \in Seq(Sockets) /\ Len([all EXCEPT ![s] = k]) = Len(all)
      /\ \A r \in 1 .. Len(all) : [all EXCEPT ![s] = k][r] = IF r = s THEN k ELSE all[r]
  BY <1>2
<1>5. QED
  BY <1>2, <1>3, <1>4

LEMMA RestatedGood ==
  ASSUME NEW n, NEW ps, NEW cs, NEW sv, NEW line,
         NEW all \in Seq(Sockets), AllGood(all, n, ps, cs, sv, line),
         NEW s \in 1 .. Len(all), NEW st \in {"open", "closing", "closed"}
  PROVE  /\ Restated(all, s, st) \in Seq(Sockets) /\ Len(Restated(all, s, st)) = Len(all)
         /\ AllGood(Restated(all, s, st), n, ps, cs, sv, line)
         /\ \A r \in 1 .. Len(all) :
              /\ Restated(all, s, st)[r].state = IF r = s THEN st ELSE all[r].state
              /\ Restated(all, s, st)[r].listening = all[r].listening
              /\ Restated(all, s, st)[r].in = all[r].in
              /\ Restated(all, s, st)[r].out = all[r].out
<1> DEFINE k == [all[s] EXCEPT !.state = st]
           new == Restated(all, s, st)
<1>1. all[s] \in Sockets
  OBVIOUS
<1>2. GoodOuts(all[s].out, n, ps, cs) /\ GoodIns(all[s].in, n, ps, cs, sv, line)
  BY <1>1 DEF AllGood
<1>3. /\ k \in Sockets /\ k.in = all[s].in /\ k.out = all[s].out /\ k.state = st
      /\ k.listening = all[s].listening
  BY <1>1 DEF Sockets
<1>4. new = [all EXCEPT ![s] = k]
  BY DEF Restated
<1> HIDE DEF k, new
<1>5. GoodOuts(k.out, n, ps, cs) /\ GoodIns(k.in, n, ps, cs, sv, line)
  BY <1>2, <1>3
<1>6. /\ [all EXCEPT ![s] = k] \in Seq(Sockets) /\ Len([all EXCEPT ![s] = k]) = Len(all)
      /\ AllGood([all EXCEPT ![s] = k], n, ps, cs, sv, line)
      /\ \A r \in 1 .. Len(all) : [all EXCEPT ![s] = k][r] = IF r = s THEN k ELSE all[r]
  BY <1>3, <1>5, OneChanged
<1>7. /\ new \in Seq(Sockets) /\ Len(new) = Len(all)
      /\ AllGood(new, n, ps, cs, sv, line)
      /\ \A r \in 1 .. Len(all) :
           /\ new[r].state = IF r = s THEN st ELSE all[r].state
           /\ new[r].listening = all[r].listening
           /\ new[r].in = all[r].in /\ new[r].out = all[r].out
  BY <1>3, <1>4, <1>6
<1>8. QED
  BY <1>7 DEF new

LEMMA SocketsRestated ==
  ASSUME Types, Messages, NEW s \in 1 .. Len(sockets),
         NEW st \in {"open", "closing", "closed"}, sockets' = Restated(sockets, s, st)
  PROVE  sockets' \in Seq(Sockets) /\ Len(sockets') = Len(sockets)
         /\ AllGood(sockets', nextId, pending, calls, served, setup.line)
BY RestatedGood DEF Types, Messages

LEMMA ConnectFailsAnswers ==
  ASSUME AnswersInv, Connections, NEW c \in Callers, ConnectFails(c)
  PROVE  AnswersInv'
<1> USE DEF AnswersInv
<1>1. /\ UNCHANGED << setup, socket, nextId, pending, turns, handling, served, asks >>
      /\ calls[c].pc = "connecting" /\ calls' = [calls EXCEPT ![c].pc = "failed"]
  BY DEF ConnectFails, client, budgets
<1>2. calls' \in [Callers -> Calls] /\ calls'[c].pc = "failed"
      /\ \A d \in Callers : calls'[d].id = calls[d].id /\ (d # c => calls'[d] = calls[d])
  BY <1>1, OneFails DEF Types
<1>3. sockets' \in Seq(Sockets) /\ Len(sockets') = Len(sockets)
      /\ AllGood(sockets', nextId, pending, calls, served, setup.line)
  <2>1. CASE UNCHANGED sockets
    BY <2>1 DEF Types, Messages
  <2>2. CASE sockets' = [sockets EXCEPT ![calls[c].conn].state = "closed"]
    <3>1. calls[c].conn \in 1 .. Len(sockets)
      BY <1>1 DEF Connections
    <3> DEFINE s == calls[c].conn
    <3> HIDE DEF s
    <3>2. s \in 1 .. Len(sockets) /\ sockets' = [sockets EXCEPT ![s].state = "closed"]
      BY <2>2, <3>1 DEF s
    <3>3. sockets' = Restated(sockets, s, "closed")
      BY <3>2 DEF Restated
    <3>4. QED
      BY <3>2, <3>3, SocketsRestated
  <2>3. QED
    BY <2>1, <2>2 DEF ConnectFails
<1>4. Types'
  BY <1>1, <1>2, <1>3 DEF Types
<1>5. Numbers' /\ Onward
  BY <1>1, <1>2, OnwardByCalls
<1>6. QED
  BY <1>1, <1>2, <1>3, <1>4, <1>5, OwedLasts, MessagesOnward, TurnsKept

(* Everything that waits is rejected.                                       *)
LEMMA Rejected ==
  ASSUME AnswersInv, RejectPending, UNCHANGED << setup, nextId, served >>
  PROVE  /\ calls' \in [Callers -> Calls] /\ pending' = {} /\ turns' = {}
         /\ Numbers' /\ Onward /\ Turns'
         /\ \A c \in Callers : /\ calls'[c].conn = calls[c].conn
                               /\ calls'[c].turn = calls[c].turn
                               /\ calls'[c].pc = "failed" \/ calls'[c] = calls[c]
                               /\ calls[c].pc = "turn" => calls'[c].pc = "failed"
<1> DEFINE E == {c \in Callers : calls[c].pc = "turn" \/ \E p \in pending : Waits(c, p)}
<1>1. pending' = {} /\ turns' = {}
      /\ calls' = [c \in Callers |-> IF c \in E THEN [calls[c] EXCEPT !.pc = "failed"]
                                     ELSE calls[c]]
  BY DEF RejectPending
<1>2. \A c \in Callers : calls[c].pc = "turn" => c \in E
  OBVIOUS
<1> HIDE DEF E
<1>3. calls' \in [Callers -> Calls]
      /\ \A c \in Callers : /\ calls'[c].id = calls[c].id /\ calls'[c].turn = calls[c].turn
                            /\ calls'[c].conn = calls[c].conn
                            /\ c \in E => calls'[c].pc = "failed"
                            /\ c \notin E => calls'[c] = calls[c]
  BY <1>1, Ended DEF AnswersInv, Types
<1>4. Numbers' /\ Onward
  BY <1>1, <1>3, OnwardByCalls DEF AnswersInv
<1>5. Turns'
  BY <1>1, <1>3 DEF Turns, OwnTurn, AnswersInv
<1>6. QED
  BY <1>1, <1>2, <1>3, <1>4, <1>5

LEMMA SocketFailsAnswers ==
  ASSUME AnswersInv, NEW s \in 1 .. Len(sockets), SocketFails(s)
  PROVE  AnswersInv'
<1>1. UNCHANGED << setup, socket, nextId, handling, sockets, served, asks >> /\ RejectPending
  BY DEF SocketFails, budgets
<1>2. /\ calls' \in [Callers -> Calls] /\ pending' = {} /\ turns' = {}
      /\ Numbers' /\ Onward /\ Turns'
  BY <1>1, Rejected
<1>3. Types'
  BY <1>1, <1>2 DEF Types, AnswersInv
<1>4. QED
  BY <1>1, <1>2, <1>3, OwedLasts, MessagesLast DEF AnswersInv

LEMMA CloseAnswers ==
  ASSUME AnswersInv, Close
  PROVE  AnswersInv'
<1>1. UNCHANGED << setup, nextId, handling, served, asks >> /\ RejectPending /\ socket' = 0
  BY DEF Close
<1>2. /\ calls' \in [Callers -> Calls] /\ pending' = {} /\ turns' = {}
      /\ Numbers' /\ Onward /\ Turns'
  BY <1>1, Rejected
<1>3. sockets' \in Seq(Sockets) /\ Len(sockets') = Len(sockets)
      /\ AllGood(sockets', nextId, pending, calls, served, setup.line)
  <2>1. CASE socket # 0 /\ sockets[socket].state = "open"
    <3>1. socket \in 1 .. Len(sockets) /\ sockets' = [sockets EXCEPT ![socket].state = "closing"]
      BY <2>1 DEF Close, AnswersInv, Types
    <3>2. sockets' = Restated(sockets, socket, "closing")
      BY <3>1 DEF Restated
    <3>3. QED
      BY <3>1, <3>2, SocketsRestated DEF AnswersInv
  <2>2. CASE ~ (socket # 0 /\ sockets[socket].state = "open")
    BY <2>2 DEF Close, AnswersInv, Types, Messages
  <2>3. QED
    BY <2>1, <2>2
<1>4. Types'
  BY <1>1, <1>2, <1>3 DEF Types, AnswersInv
<1>5. QED
  BY <1>1, <1>2, <1>3, <1>4, OwedLasts, MessagesOnward DEF AnswersInv

LEMMA SocketClosesAnswers ==
  ASSUME AnswersInv, NEW s \in 1 .. Len(sockets), SocketCloses(s)
  PROVE  AnswersInv'
<1> USE DEF AnswersInv
<1> DEFINE k == [sockets[s] EXCEPT !.state = "closed", !.in = << >>, !.out = << >>]
<1>1. UNCHANGED << setup, socket, nextId, handling, served, asks >>
      /\ sockets' = [sockets EXCEPT ![s] = k]
  BY DEF SocketCloses, budgets
<1>2. sockets[s] \in Sockets
  BY DEF Types
<1>3. k \in Sockets /\ k.in = << >> /\ k.out = << >>
  <2>1. k.in = << >> /\ k.out = << >>
    BY <1>2 DEF Sockets
  <2>2. << >> \in Seq(Incoming) /\ << >> \in Seq(Outgoing)
    OBVIOUS
  <2>3. k \in Sockets
    BY <1>2, <2>2 DEF Sockets
  <2>4. QED
    BY <2>1, <2>3
<1> HIDE DEF k
<1>4. GoodOuts(k.out, nextId, pending, calls)
      /\ GoodIns(k.in, nextId, pending, calls, served, setup.line)
  BY <1>3 DEF GoodOuts, GoodIns
<1>5. sockets' \in Seq(Sockets) /\ Len(sockets') = Len(sockets)
      /\ AllGood(sockets', nextId, pending, calls, served, setup.line)
  <2>1. sockets \in Seq(Sockets) /\ AllGood(sockets, nextId, pending, calls, served, setup.line)
    BY DEF Types, Messages
  <2>2. [sockets EXCEPT ![s] = k] \in Seq(Sockets)
        /\ Len([sockets EXCEPT ![s] = k]) = Len(sockets)
        /\ AllGood([sockets EXCEPT ![s] = k], nextId, pending, calls, served, setup.line)
    BY <1>3, <1>4, <2>1, OneChanged
  <2>3. QED
    BY <1>1, <2>2
<1>6. CASE RejectPending
  <2>1. /\ calls' \in [Callers -> Calls] /\ pending' = {} /\ turns' = {}
        /\ Numbers' /\ Onward /\ Turns'
    BY <1>1, <1>6, Rejected
  <2>2. Types'
    BY <1>1, <1>5, <2>1 DEF Types
  <2>3. QED
    BY <1>1, <1>5, <2>1, <2>2, OwedLasts, MessagesOnward
<1>7. CASE UNCHANGED << calls, pending, turns >>
  <2>1. Types'
    BY <1>1, <1>5, <1>7 DEF Types
  <2>2. Numbers' /\ Onward
    BY <1>1, <1>7, OnwardByCalls
  <2>3. Turns'
    BY <1>1, <1>7 DEF Turns
  <2>4. QED
    BY <1>1, <1>5, <2>1, <2>2, <2>3, OwedLasts, MessagesOnward
<1>8. QED
  BY <1>6, <1>7 DEF SocketCloses

LEMMA OpenedUnheardAnswers ==
  ASSUME AnswersInv, NEW s \in 1 .. Len(sockets), OpenedUnheard(s)
  PROVE  AnswersInv'
<1> USE DEF AnswersInv
<1>1. /\ UNCHANGED << setup, calls, socket, nextId, pending, turns, handling, served, asks >>
      /\ sockets' = [sockets EXCEPT ![s].state = "open"]
  BY DEF OpenedUnheard, client, budgets
<1>2. sockets' \in Seq(Sockets) /\ Len(sockets') = Len(sockets)
      /\ AllGood(sockets', nextId, pending, calls, served, setup.line)
  <2>1. sockets' = Restated(sockets, s, "open")
    BY <1>1 DEF Restated
  <2>2. QED
    BY <2>1, SocketsRestated
<1>3. Types'
  BY <1>1, <1>2 DEF Types
<1>4. Numbers' /\ Onward
  BY <1>1, OnwardByCalls
<1>5. Turns'
  BY <1>1 DEF Turns
<1>6. QED
  BY <1>1, <1>2, <1>3, <1>4, <1>5, OwedLasts, MessagesOnward

-----------------------------------------------------------------------------
(* Timers and replies.                                                      *)

LEMMA RequestTimesOutAnswers ==
  ASSUME AnswersInv, NEW p \in pending, RequestTimesOut(p)
  PROVE  AnswersInv'
<1> USE DEF AnswersInv
<1>1. /\ UNCHANGED << setup, socket, nextId, turns, handling, sockets, served, asks >>
      /\ pending' = pending \ {p}
      /\ calls' = IF Waits(p.caller, p)
                  THEN [calls EXCEPT ![p.caller].pc = "failed"] ELSE calls
  BY DEF RequestTimesOut, budgets
<1>2. p.caller \in Callers
  BY DEF Types
<1>3. calls' \in [Callers -> Calls] /\ Numbers' /\ Onward /\ Turns'
  <2>1. CASE Waits(p.caller, p)
    <3>1. calls[p.caller].pc # "turn"
      BY <2>1 DEF Waits
    <3>2. calls' \in [Callers -> Calls] /\ calls'[p.caller].pc = "failed"
          /\ \A d \in Callers : calls'[d].id = calls[d].id
               /\ (d # p.caller => calls'[d] = calls[d])
      BY <1>1, <1>2, <2>1, OneFails DEF Types
    <3>3. Numbers' /\ Onward
      BY <1>1, <1>2, <3>2, OnwardByCalls
    <3>4. QED
      BY <1>1, <1>2, <3>1, <3>2, <3>3, TurnsKept
  <2>2. CASE ~ Waits(p.caller, p)
    <3>1. calls' = calls
      BY <1>1, <2>2
    <3>2. Numbers' /\ Onward
      BY <1>1, <3>1, OnwardByCalls
    <3>3. QED
      BY <1>1, <3>1, <3>2 DEF Types, Turns
  <2>3. QED
    BY <2>1, <2>2
<1>4. Types'
  BY <1>1, <1>3 DEF Types
<1>5. QED
  BY <1>1, <1>3, <1>4, OwedLasts, MessagesLast

LEMMA TurnTimesOutAnswers ==
  ASSUME AnswersInv, NEW t \in turns, TurnTimesOut(t)
  PROVE  AnswersInv'
<1> USE DEF AnswersInv
<1>1. /\ UNCHANGED << setup, socket, nextId, pending, handling, sockets, served, asks >>
      /\ turns' = turns \ {t} /\ calls' = [calls EXCEPT ![t.caller].pc = "failed"]
  BY DEF TurnTimesOut, budgets
<1>2. t.caller \in Callers
  BY DEF Types
<1>3. calls' \in [Callers -> Calls] /\ calls'[t.caller].pc = "failed"
      /\ \A d \in Callers : calls'[d].id = calls[d].id
           /\ (d # t.caller => calls'[d] = calls[d])
  BY <1>1, <1>2, OneFails DEF Types
<1>4. Numbers' /\ Onward
  BY <1>1, <1>2, <1>3, OnwardByCalls
<1>5. Turns'
  <2>1. \A d \in Callers : OwnTurn(calls'[d], d, served', setup.line)
    BY <1>1, <1>2, <1>3 DEF Turns, OwnTurn
  <2>2. ASSUME NEW u \in turns'
        PROVE  calls'[u.caller].pc = "turn" /\ calls'[u.caller].turn = u.turn
    <3>1. u \in turns /\ u # t /\ u.caller \in Callers
      BY <1>1 DEF Types
    <3>2. u.caller # t.caller
      BY <3>1 DEF Types, Turns
    <3>3. QED
      BY <1>3, <3>1, <3>2 DEF Turns
  <2>3. QED
    BY <1>1, <2>1, <2>2 DEF Turns
<1>6. Types'
  BY <1>1, <1>3 DEF Types
<1>7. QED
  BY <1>1, <1>4, <1>5, <1>6, OwedLasts, MessagesLast

LEMMA ReplyAnswers ==
  ASSUME AnswersInv, NEW h \in handling, Reply(h)
  PROVE  AnswersInv'
<1> USE DEF AnswersInv
<1>1. /\ UNCHANGED << setup, calls, socket, nextId, pending, turns, served, asks >>
      /\ handling' = handling \ {h}
  BY DEF Reply, budgets
<1>2. sockets' \in Seq(Sockets) /\ Len(sockets') = Len(sockets)
      /\ AllGood(sockets', nextId, pending, calls, served, setup.line)
  <2>1. CASE socket = 0
    BY <2>1 DEF Reply, Types, Messages
  <2>2. CASE socket # 0
    <3> DEFINE m == Message("reply", h.id, h.conn)
    <3>1. socket \in 1 .. Len(sockets) /\ sockets' = Sent(sockets, socket, m)
      BY <2>2 DEF Reply, Types
    <3>2. h.id \in Nat /\ h.conn \in Nat
      BY DEF Types
    <3>3. m \in Outgoing /\ m.kind = "reply"
      BY <3>2 DEF Message, Outgoing
    <3> HIDE DEF m
    <3>4. GoodOut(m, nextId, pending, calls)
      BY <3>3 DEF GoodOut
    <3>5. sockets \in Seq(Sockets) /\ AllGood(sockets, nextId, pending, calls, served, setup.line)
      BY DEF Types, Messages
    <3>6. QED
      BY <3>1, <3>3, <3>4, <3>5, SentGood
  <2>3. QED
    BY <2>1, <2>2
<1>3. Types'
  BY <1>1, <1>2 DEF Types
<1>4. Numbers' /\ Onward
  BY <1>1, OnwardByCalls
<1>5. Turns'
  BY <1>1 DEF Turns
<1>6. QED
  BY <1>1, <1>2, <1>3, <1>4, <1>5, OwedLasts, MessagesOnward

-----------------------------------------------------------------------------
(* The messages of the server.                                              *)

(* What the message a client reads can be.                                  *)
LEMMA HeadGood ==
  ASSUME Types, Messages, NEW s \in 1 .. Len(sockets), sockets[s].in # << >>
  PROVE  /\ sockets[s].in \in Seq(Incoming)
         /\ Head(sockets[s].in) \in Incoming
         /\ GoodIn(Head(sockets[s].in), nextId, pending, calls, served, setup.line)
         /\ Read(sockets, s) \in Seq(Sockets) /\ Len(Read(sockets, s)) = Len(sockets)
         /\ AllGood(Read(sockets, s), nextId, pending, calls, served, setup.line)
<1>1. sockets \in Seq(Sockets) /\ sockets[s] \in Sockets
      /\ AllGood(sockets, nextId, pending, calls, served, setup.line)
  BY DEF Types, Messages
<1>2. sockets[s].in \in Seq(Incoming)
      /\ GoodIns(sockets[s].in, nextId, pending, calls, served, setup.line)
  BY <1>1 DEF Sockets, AllGood
<1>3. Read(sockets, s) \in Seq(Sockets) /\ Len(Read(sockets, s)) = Len(sockets)
      /\ AllGood(Read(sockets, s), nextId, pending, calls, served, setup.line)
  BY <1>1, ReadGood
<1>4. QED
  BY <1>2, <1>3, InTail

LEMMA HandleAnswerAnswers ==
  ASSUME AnswersInv, Connections, NEW s \in 1 .. Len(sockets), sockets[s].in # << >>,
         NEW p \in pending, p.id = Head(sockets[s].in).id,
         HandleAnswer(s, Head(sockets[s].in), p),
         UNCHANGED << turns, handling, setup, socket, served, budgets >>
  PROVE  AnswersInv'
<1> USE DEF AnswersInv
<1> DEFINE m == Head(sockets[s].in)
           c == p.caller
           read == Read(sockets, s)
           rest == pending \ {p}
<1>1. c \in Callers /\ p.id \in Nat /\ UNCHANGED asks
  BY DEF Types, budgets
<1>2. m \in Incoming /\ GoodIn(m, nextId, pending, calls, served, setup.line)
      /\ read \in Seq(Sockets) /\ Len(read) = Len(sockets)
      /\ AllGood(read, nextId, pending, calls, served, setup.line)
  BY HeadGood
<1>3. CASE /\ Waits(c, p) /\ calls[c].pc = "handshake" /\ m.kind # "error"
           /\ SendRequest(c, "start",
                          Sent(read, calls[c].conn, Message("initialized", 0, c)), rest)
  <2> DEFINE i == Message("initialized", 0, c)
             k == calls[c].conn
             all == Sent(read, k, i)
  <2>1. k \in 1 .. Len(sockets)
    BY <1>1, <1>3 DEF Connections
  <2>2. i \in Outgoing /\ i.kind = "initialized"
    BY <1>1 DEF Message, Outgoing
  <2> HIDE DEF i, k, read, rest
  <2>3. GoodOut(i, nextId, pending, calls)
    BY <2>2 DEF GoodOut
  <2>4. all \in Seq(Sockets) /\ Len(all) = Len(sockets)
        /\ AllGood(all, nextId, pending, calls, served, setup.line)
    BY <1>2, <2>1, <2>2, <2>3, SentGood
  <2>5. SendRequest(c, "start", all, rest) /\ rest \in SUBSET pending
    BY <1>3 DEF i, k, rest
  <2> HIDE DEF all
  <2>6. /\ nextId' \in Nat \ {0} /\ calls' \in [Callers -> Calls]
        /\ pending' \subseteq [id : Nat \ {0}, caller : Callers]
        /\ Numbers' /\ Onward
        /\ \A d \in Callers \ {c} : calls'[d] = calls[d]
        /\ calls'[c].pc \in {"failed", "handshake", "starting"}
    BY <1>1, <2>4, <2>5, RequestEntered
  <2>7. sockets' \in Seq(Sockets) /\ Len(sockets') = Len(sockets) /\ Messages'
    BY <1>1, <2>4, <2>5, RequestSent
  <2>8. Types'
    BY <1>1, <2>6, <2>7 DEF Types
  <2>9. QED
    BY <1>1, <1>3, <2>6, <2>7, <2>8, OwedLasts, TurnsKept
<1>4. CASE /\ ~ (Waits(c, p) /\ calls[c].pc = "handshake" /\ m.kind # "error")
           /\ calls' = IF ~ Waits(c, p) THEN calls
                       ELSE [calls EXCEPT ![c].turn = Result(m), ![c].pc = Continued(m)]
           /\ pending' = rest /\ sockets' = read /\ UNCHANGED nextId
  <2>1. CASE ~ Waits(c, p)
    <3>1. calls' = calls
      BY <1>4, <2>1
    <3>2. Types'
      BY <1>1, <1>2, <1>4, <3>1 DEF Types
    <3>3. Numbers' /\ Onward
      BY <1>4, <3>1, OnwardByCalls
    <3>4. Turns'
      BY <3>1 DEF Turns
    <3>5. QED
      BY <1>2, <1>4, <3>2, <3>3, <3>4, OwedLasts, MessagesOnward
  <2>2. CASE Waits(c, p)
    <3> DEFINE pc == Continued(m)
               ref == Result(m)
    <3>1. ref \in Nat /\ pc \in {"failed", "done", "answered"}
      BY <1>2 DEF Incoming, Continued, Result
    <3>2. pc # "failed" /\ ~ (setup.line /\ ref = 0) =>
            /\ ref \in 1 .. Len(served) /\ served[ref].caller = c
            /\ pc = "done" => served[ref].state = "completed"
      <4>1. SUFFICES ASSUME m.kind = "answer"
                     PROVE  ref \in 1 .. Len(served) /\ served[ref].caller = c
                            /\ (setup.line => served[ref].state = "completed")
        BY DEF Continued, Result
      <4> USE DEF Result
      <4>2. calls[c].pc = "starting" /\ calls[c].id = m.id
        BY <1>4, <2>2, <4>1 DEF Waits
      <4>3. ref # 0
        BY <1>1, <1>2, <4>1, <4>2 DEF GoodIn, NoStart
      <4>4. QED
        BY <1>1, <1>2, <4>1, <4>3 DEF GoodIn, Asked
    <3>9. pc = "answered" => ~ setup.line
      BY DEF Continued
    <3>3. calls' = [calls EXCEPT ![c].turn = ref, ![c].pc = pc]
      BY <1>4, <2>2
    <3> HIDE DEF pc, ref, c
    <3>4. calls' \in [Callers -> Calls] /\ calls'[c].turn = ref /\ calls'[c].pc = pc
          /\ \A d \in Callers : calls'[d].id = calls[d].id
               /\ (d # c => calls'[d] = calls[d])
      <4> DEFINE k == [calls[c] EXCEPT !.turn = ref, !.pc = pc]
      <4>1. calls[c] \in Calls
        BY <1>1 DEF Types
      <4>2. k.turn = ref /\ k.pc = pc /\ k.id = calls[c].id
        BY <4>1 DEF Calls
      <4>3. k \in Calls
        BY <4>1, <3>1 DEF Calls, Phases, Waiting
      <4>4. calls' = [calls EXCEPT ![c] = k]
        BY <3>3
      <4> HIDE DEF k
      <4>5. QED
        BY <1>1, <4>2, <4>3, <4>4 DEF Types
    <3>5. Types'
      BY <1>1, <1>2, <1>4, <3>4 DEF Types
    <3>6. Numbers' /\ Onward
      BY <1>1, <1>4, <3>1, <3>4, OnwardByCalls
    <3>7. Turns'
      <4>1. calls[c].pc # "turn"
        BY <2>2 DEF Waits, c
      <4>2. \A d \in Callers : OwnTurn(calls'[d], d, served', setup.line)
        BY <1>1, <3>1, <3>2, <3>4, <3>9 DEF Turns, OwnTurn
      <4>3. \A t \in turns' : t.caller \in Callers /\ t.caller # c
        BY <4>1 DEF Turns, Types
      <4>4. QED
        BY <3>4, <4>2, <4>3 DEF Turns
    <3>8. QED
      BY <1>2, <1>4, <3>5, <3>6, <3>7, OwedLasts, MessagesOnward
  <2>3. QED
    BY <2>1, <2>2
<1>5. QED
  BY <1>3, <1>4 DEF HandleAnswer, Read

LEMMA HandleCompletedAnswers ==
  ASSUME AnswersInv, NEW s \in 1 .. Len(sockets), sockets[s].in # << >>,
         Head(sockets[s].in).kind = "completed",
         HandleCompleted(s, Head(sockets[s].in)),
         UNCHANGED << setup, socket, nextId, pending, served, asks >>
  PROVE  AnswersInv'
<1> USE DEF AnswersInv
<1> DEFINE m == Head(sockets[s].in)
           read == Read(sockets, s)
           E == {c \in Callers : [turn |-> m.ref, caller |-> c] \in turns}
<1>1. m.kind = "completed" /\ GoodIn(m, nextId, pending, calls, served, setup.line)
      /\ read \in Seq(Sockets) /\ Len(read) = Len(sockets)
      /\ AllGood(read, nextId, pending, calls, served, setup.line)
  BY HeadGood
<1>2. /\ sockets' = read /\ turns' = {t \in turns : t.turn # m.ref} /\ handling' = handling
      /\ \E end \in {"done", "failed"} :
           calls' = [c \in Callers |-> IF [turn |-> m.ref, caller |-> c] \in turns
                                      THEN [calls[c] EXCEPT !.pc = end] ELSE calls[c]]
  BY DEF HandleCompleted, Read
<1>3. \A c \in Callers : c \in E <=> [turn |-> m.ref, caller |-> c] \in turns
  OBVIOUS
<1>11. PICK end \in {"done", "failed"} :
         calls' = [c \in Callers |-> IF c \in E THEN [calls[c] EXCEPT !.pc = end]
                                    ELSE calls[c]]
  BY <1>2
<1>4. served[m.ref].state = "completed"
  BY <1>1 DEF GoodIn
<1> HIDE DEF E, m, read
<1>5. calls' \in [Callers -> Calls]
      /\ \A c \in Callers : /\ calls'[c].id = calls[c].id /\ calls'[c].turn = calls[c].turn
                            /\ c \in E => calls'[c].pc = end
                            /\ c \notin E => calls'[c] = calls[c]
  <2>1. calls \in [Callers -> Calls] /\ end \in {"failed", "done"}
    BY DEF Types
  <2>2. QED
    BY ONLY <1>11, <2>1 DEF Calls, Phases, Waiting
<1>6. Types'
  BY <1>1, <1>2, <1>5 DEF Types
<1>7. Numbers' /\ Onward
  BY <1>2, <1>5, OnwardByCalls
<1>8. \A c \in E : calls[c].pc = "turn" /\ calls[c].turn = m.ref /\ c \in Callers
  <2>1. SUFFICES ASSUME NEW c \in E
                 PROVE  calls[c].pc = "turn" /\ calls[c].turn = m.ref /\ c \in Callers
    OBVIOUS
  <2> DEFINE t == [turn |-> m.ref, caller |-> c]
  <2>2. c \in Callers /\ t \in turns
    BY DEF E
  <2>3. t.turn = m.ref /\ t.caller = c
    OBVIOUS
  <2> HIDE DEF t
  <2>4. QED
    BY <2>2, <2>3 DEF Turns
<1>9. Turns'
  <2>1. \A c \in Callers : OwnTurn(calls'[c], c, served', setup.line)
    BY <1>4, <1>5, <1>8 DEF Turns, OwnTurn
  <2>2. \A t \in turns' : t \in turns /\ t.turn # m.ref /\ t.caller \in Callers
    BY <1>2 DEF Types
  <2>3. QED
    BY <1>5, <1>8, <2>1, <2>2 DEF Turns
<1>10. QED
  BY <1>1, <1>2, <1>6, <1>7, <1>9, OwedLasts, MessagesOnward

LEMMA HandleMessageAnswers ==
  ASSUME AnswersInv, Connections, NEW s \in 1 .. Len(sockets), HandleMessage(s)
  PROVE  AnswersInv'
<1> USE DEF AnswersInv
<1> DEFINE m == Head(sockets[s].in)
           read == Read(sockets, s)
<1>1. UNCHANGED << setup, socket, served, budgets, asks >> /\ sockets[s].in # << >>
  BY DEF HandleMessage, budgets
<1>2. m \in Incoming /\ read \in Seq(Sockets) /\ Len(read) = Len(sockets)
      /\ AllGood(read, nextId, pending, calls, served, setup.line)
  BY <1>1, HeadGood
<1>3. CASE \E p \in pending : p.id = m.id /\ HandleAnswer(s, m, p) /\ UNCHANGED << turns, handling >>
  BY <1>1, <1>3, HandleAnswerAnswers
<1>4. CASE m.kind = "completed" /\ HandleCompleted(s, m) /\ UNCHANGED << nextId, pending >>
  BY <1>1, <1>4, HandleCompletedAnswers
<1>5. CASE sockets' = read /\ UNCHANGED << calls, turns, nextId, pending >>
           /\ handling' \in {handling, handling \cup {[conn |-> s, id |-> m.id]}}
  <2>1. m.id \in Nat
    BY <1>2 DEF Incoming
  <2> HIDE DEF m, read
  <2>2. handling' \subseteq [conn : Nat, id : Nat]
    BY <1>5, <2>1 DEF Types
  <2>3. Types'
    BY <1>1, <1>2, <1>5, <2>2 DEF Types
  <2>4. Numbers' /\ Onward
    BY <1>1, <1>5, OnwardByCalls
  <2>5. Turns'
    BY <1>1, <1>5 DEF Turns
  <2>6. QED
    BY <1>1, <1>2, <1>5, <2>3, <2>4, <2>5, OwedLasts, MessagesOnward
<1>6. QED
  BY <1>3, <1>4, <1>5 DEF HandleMessage, HandleAsk, Read

-----------------------------------------------------------------------------
(* The server.                                                              *)

(* A step of the server leaves what the client knows.                       *)
LEMMA ServerOnward ==
  ASSUME AnswersInv, UNCHANGED << setup, calls, client >>,
         sockets' \in Seq(Sockets), Len(sockets') = Len(sockets), asks' \in Nat,
         served' \in Seq(ServedTurns), Len(served') >= Len(served),
         \A t \in 1 .. Len(served) :
           /\ served'[t].caller = served[t].caller
           /\ served[t].state = "completed" => served'[t].state = "completed",
         AllGood(sockets', nextId, pending, calls, served, setup.line) \/ Messages',
         Owed'
  PROVE  AnswersInv'
<1> USE DEF AnswersInv
<1>1. UNCHANGED << socket, nextId, pending, turns, handling >>
  BY DEF client
<1>2. Types' /\ Numbers'
  BY <1>1 DEF Types, Numbers
<1>3. Onward
  BY <1>1 DEF Onward, Later, Types
<1>4. Turns'
  <2>1. \A c \in Callers : calls[c] \in Calls
    BY DEF Types
  <2>2. Len(served) \in Nat /\ Len(served') \in Nat
    BY DEF Types
  <2>3. ASSUME NEW c \in Callers
        PROVE  OwnTurn(calls[c], c, served', setup.line)
    BY <2>1, <2>2 DEF Turns, OwnTurn
  <2>4. QED
    BY <1>1, <2>3 DEF Turns
<1>5. Messages'
  BY <1>1, <1>2, <1>3, MessagesOnward
<1>6. QED
  BY <1>2, <1>4, <1>5

(* One turn of the server changes.                                          *)
LEMMA TurnChanged ==
  ASSUME AnswersInv, NEW t \in 1 .. Len(served), served[t].state # "completed",
         NEW k \in ServedTurns, k.caller = served[t].caller, k.conn = served[t].conn,
         served' = [served EXCEPT ![t] = k]
  PROVE  /\ served' \in Seq(ServedTurns) /\ Len(served') = Len(served)
         /\ \A u \in 1 .. Len(served) :
              /\ served'[u] = IF u = t THEN k ELSE served[u]
              /\ served'[u].caller = served[u].caller
              /\ served'[u].conn = served[u].conn
              /\ served[u].state = "completed" => served'[u].state = "completed"
<1>1. served \in Seq(ServedTurns)
  BY DEF AnswersInv, Types
<1>2. [served EXCEPT ![t] = k] \in Seq(ServedTurns)
      /\ Len([served EXCEPT ![t] = k]) = Len(served)
      /\ \A u \in 1 .. Len(served) :
           [served EXCEPT ![t] = k][u] = IF u = t THEN k ELSE served[u]
  BY <1>1, Replaced
<1>3. QED
  BY <1>2

(* The new turns of the server are those that were there, and what is said  *)
(* about them still holds.                                                  *)
LEMMA ServedLasts ==
  ASSUME AnswersInv, served' \in Seq(ServedTurns), Len(served') >= Len(served),
         \A t \in 1 .. Len(served) :
           /\ served'[t].caller = served[t].caller
           /\ served[t].state = "completed" => served'[t].state = "completed"
  PROVE  AllGood(sockets, nextId, pending, calls, served', setup.line)
<1>1. Ids(pending, calls) /\ nextId \in Nat /\ served \in Seq(ServedTurns)
      /\ sockets \in Seq(Sockets)
      /\ AllGood(sockets, nextId, pending, calls, served, setup.line)
  BY DEF AnswersInv, Types, Ids, Calls, Messages
<1>2. Later(nextId, pending, calls, served, nextId, pending, calls, served')
  BY <1>1 DEF Later
<1>3. QED
  BY <1>1, <1>2, AllLasts

(* The server has said something to the client.                             *)
LEMMA ToldGood ==
  ASSUME AnswersInv, NEW s, NEW m \in Incoming,
         s \in 1 .. Len(sockets) \/ sockets' = sockets,
         sockets' = ToClient(s, m),
         NEW sv,
         AllGood(sockets, nextId, pending, calls, sv, setup.line),
         GoodIn(m, nextId, pending, calls, sv, setup.line)
  PROVE  sockets' \in Seq(Sockets) /\ Len(sockets') = Len(sockets)
         /\ AllGood(sockets', nextId, pending, calls, sv, setup.line)
<1>1. sockets \in Seq(Sockets)
  BY DEF AnswersInv, Types
<1>2. CASE sockets' = sockets
  BY <1>1, <1>2
<1>3. CASE s \in 1 .. Len(sockets) /\ sockets[s].state # "closed"
  <2> DEFINE k == [sockets[s] EXCEPT !.in = Append(@, m)]
  <2>1. sockets[s] \in Sockets
    BY <1>1, <1>3
  <2>2. sockets[s].in \in Seq(Incoming) /\ GoodOuts(sockets[s].out, nextId, pending, calls)
        /\ GoodIns(sockets[s].in, nextId, pending, calls, sv, setup.line)
    BY <1>3, <2>1 DEF AllGood, Sockets
  <2>3. Append(sockets[s].in, m) \in Seq(Incoming)
        /\ GoodIns(Append(sockets[s].in, m), nextId, pending, calls, sv, setup.line)
    BY <2>2, InAppended
  <2>4. k.in = Append(sockets[s].in, m) /\ k.out = sockets[s].out
    BY <2>1 DEF Sockets
  <2>5. k \in Sockets
    BY <2>1, <2>3 DEF Sockets
  <2>6. sockets' = [sockets EXCEPT ![s] = k]
    BY <1>3 DEF ToClient
  <2> HIDE DEF k
  <2>7. GoodOuts(k.out, nextId, pending, calls)
        /\ GoodIns(k.in, nextId, pending, calls, sv, setup.line)
    BY <2>2, <2>3, <2>4
  <2>8. [sockets EXCEPT ![s] = k] \in Seq(Sockets)
        /\ Len([sockets EXCEPT ![s] = k]) = Len(sockets)
        /\ AllGood([sockets EXCEPT ![s] = k], nextId, pending, calls, sv, setup.line)
    BY <1>1, <1>3, <2>5, <2>7, OneChanged
  <2>9. QED
    BY <2>6, <2>8
<1>4. QED
  BY <1>2, <1>3 DEF ToClient

LEMMA ServerAsksAnswers ==
  ASSUME AnswersInv, Carried, NEW t \in 1 .. Len(served), ServerAsks(t)
  PROVE  AnswersInv'
<1> USE DEF AnswersInv
<1> DEFINE k == [served[t] EXCEPT !.state = "asking", !.ask = AskId]
           m == Message("ask", AskId, t)
<1>1. UNCHANGED << setup, calls, client >> /\ asks' = asks + 1
      /\ served[t].state = "running" /\ served' = [served EXCEPT ![t] = k]
      /\ sockets' = ToClient(served[t].conn, m)
  BY DEF ServerAsks
<1>2. asks \in Nat /\ AskId \in Nat
  BY DEF AskId, Types
<1>3. served[t] \in ServedTurns
  BY DEF Types
<1>4. k \in ServedTurns /\ k.caller = served[t].caller /\ k.conn = served[t].conn
      /\ k.id = served[t].id
  BY <1>2, <1>3 DEF ServedTurns
<1>5. m \in Incoming /\ m.kind = "ask"
  BY <1>2 DEF Message, Incoming
<1> HIDE DEF k, m
<1>6. /\ served' \in Seq(ServedTurns) /\ Len(served') = Len(served)
      /\ \A u \in 1 .. Len(served) :
           /\ served'[u].caller = served[u].caller
           /\ served[u].state = "completed" => served'[u].state = "completed"
  BY <1>1, <1>4, TurnChanged
<1>7. AllGood(sockets, nextId, pending, calls, served', setup.line)
  BY <1>6, ServedLasts DEF Types
<1>8. GoodIn(m, nextId, pending, calls, served', setup.line)
  BY <1>5 DEF GoodIn
<1>9. served[t].conn \in 1 .. Len(sockets)
  BY DEF Carried
<1>10. sockets' \in Seq(Sockets) /\ Len(sockets') = Len(sockets)
       /\ AllGood(sockets', nextId, pending, calls, served', setup.line)
  BY <1>1, <1>5, <1>7, <1>8, <1>9, ToldGood
<1>13. \A u \in 1 .. Len(served) : served'[u].id = served[u].id
  BY <1>1, <1>4, TurnChanged
<1>11. Messages' /\ Owed'
  BY <1>1, <1>6, <1>10, <1>13 DEF Messages, Owed, client
<1>12. QED
  BY <1>1, <1>2, <1>6, <1>10, <1>11, ServerOnward DEF Types

LEMMA ServerCompletesAnswers ==
  ASSUME AnswersInv, Carried, NEW t \in 1 .. Len(served), ServerCompletes(t)
  PROVE  AnswersInv'
<1> USE DEF AnswersInv
<1> DEFINE k == [served[t] EXCEPT !.state = "completed"]
           m == IF setup.line THEN Message("answer", served[t].id, t)
                ELSE Message("completed", 0, t)
<1>1. UNCHANGED << setup, calls, client, budgets >>
      /\ served[t].state = "running" /\ served' = [served EXCEPT ![t] = k]
      /\ sockets' = ToClient(served[t].conn, m)
  BY DEF ServerCompletes
<1>2. served[t] \in ServedTurns
  BY DEF Types
<1>3. /\ k \in ServedTurns /\ k.caller = served[t].caller /\ k.conn = served[t].conn
      /\ k.state = "completed" /\ k.id = served[t].id /\ served[t].id \in Nat
  BY <1>2 DEF ServedTurns
<1>4. m \in Incoming /\ m.ref = t
      /\ IF setup.line THEN m.kind = "answer" /\ m.id = served[t].id
         ELSE m.kind = "completed" /\ m.id = 0
  BY <1>3 DEF Message, Incoming
<1> HIDE DEF k, m
<1>5. /\ served' \in Seq(ServedTurns) /\ Len(served') = Len(served)
      /\ \A u \in 1 .. Len(served) :
           /\ served'[u] = IF u = t THEN k ELSE served[u]
           /\ served'[u].caller = served[u].caller
           /\ served[u].state = "completed" => served'[u].state = "completed"
  <2>1. served[t].state # "completed"
    BY <1>1
  <2>2. QED
    BY <1>1, <1>3, <2>1, TurnChanged
<1>6. AllGood(sockets, nextId, pending, calls, served', setup.line)
  BY <1>5, ServedLasts DEF Types
<1>7. GoodIn(m, nextId, pending, calls, served', setup.line)
  <2>1. t \in Nat \ {0} /\ t \in 1 .. Len(served') /\ served'[t].state = "completed"
        /\ served'[t].caller = served[t].caller
    BY <1>3, <1>5 DEF Types
  <2>2. setup.line => served[t].id < nextId /\ Asked(served[t].id, served[t].caller, pending)
    BY DEF Owed
  <2>3. QED
    BY <1>4, <2>1, <2>2 DEF GoodIn
<1>8. served[t].conn \in 1 .. Len(sockets)
  BY DEF Carried
<1>9. sockets' \in Seq(Sockets) /\ Len(sockets') = Len(sockets)
      /\ AllGood(sockets', nextId, pending, calls, served', setup.line)
  BY <1>1, <1>4, <1>6, <1>7, <1>8, ToldGood
<1>10. Messages'
  BY <1>1, <1>9 DEF Messages, client
<1>11. Owed'
  BY <1>1, <1>3, <1>5 DEF Owed, client
<1>12. asks' \in Nat
  BY <1>1 DEF budgets, Types
<1>13. QED
  BY <1>1, <1>5, <1>9, <1>10, <1>11, <1>12, ServerOnward DEF Types

(* The server takes one message of a socket and may answer it with m.       *)
Exchange(s, shaken, in) ==
  sockets' = [sockets EXCEPT ![s] = [sockets[s] EXCEPT
                !.out = Tail(sockets[s].out), !.shaken = shaken, !.in = in]]

Answering(in, q, m, sv) ==
  \/ in = q
  \/ GoodIn(m, nextId, pending, calls, sv, setup.line) /\ in = Append(q, m)

LEMMA Exchanged ==
  ASSUME AnswersInv, NEW s \in 1 .. Len(sockets), NEW sv,
         AllGood(sockets, nextId, pending, calls, sv, setup.line),
         sockets[s].out # << >>,
         NEW m \in Incoming, NEW in, NEW shaken \in BOOLEAN,
         Answering(in, sockets[s].in, m, sv), Exchange(s, shaken, in)
  PROVE  sockets' \in Seq(Sockets) /\ Len(sockets') = Len(sockets)
         /\ AllGood(sockets', nextId, pending, calls, sv, setup.line)
<1>1. sockets \in Seq(Sockets) /\ sockets[s] \in Sockets
  BY DEF AnswersInv, Types
<1>2. /\ sockets[s].out \in Seq(Outgoing) /\ GoodOuts(sockets[s].out, nextId, pending, calls)
      /\ sockets[s].in \in Seq(Incoming)
      /\ GoodIns(sockets[s].in, nextId, pending, calls, sv, setup.line)
  BY <1>1 DEF AllGood, Sockets
<1> DEFINE out == Tail(sockets[s].out)
           k == [sockets[s] EXCEPT !.out = out, !.shaken = shaken, !.in = in]
<1>3. out \in Seq(Outgoing) /\ GoodOuts(out, nextId, pending, calls)
  BY <1>2, OutTail
<1>4. in \in Seq(Incoming) /\ GoodIns(in, nextId, pending, calls, sv, setup.line)
  <2>1. CASE in = sockets[s].in
    BY <1>2, <2>1
  <2>2. CASE GoodIn(m, nextId, pending, calls, sv, setup.line)
             /\ in = Append(sockets[s].in, m)
    <3>1. Append(sockets[s].in, m) \in Seq(Incoming)
          /\ GoodIns(Append(sockets[s].in, m), nextId, pending, calls, sv, setup.line)
      BY <1>2, <2>2, InAppended
    <3>2. QED
      BY <2>2, <3>1
  <2>3. QED
    BY <2>1, <2>2 DEF Answering
<1> HIDE DEF out
<1>5. k \in Sockets /\ k.in = in /\ k.out = out
  BY <1>1, <1>3, <1>4 DEF Sockets
<1>6. sockets' = [sockets EXCEPT ![s] = k]
  BY DEF out, Exchange
<1> HIDE DEF k
<1>7. GoodOuts(k.out, nextId, pending, calls)
      /\ GoodIns(k.in, nextId, pending, calls, sv, setup.line)
  BY <1>3, <1>4, <1>5
<1>8. [sockets EXCEPT ![s] = k] \in Seq(Sockets)
      /\ Len([sockets EXCEPT ![s] = k]) = Len(sockets)
      /\ AllGood([sockets EXCEPT ![s] = k], nextId, pending, calls, sv, setup.line)
  BY <1>1, <1>5, <1>7, OneChanged
<1>9. QED
  BY <1>6, <1>8

LEMMA ServerSays ==
  ASSUME AnswersInv, UNCHANGED << setup, calls, client, budgets, served >>,
         NEW s \in 1 .. Len(sockets), sockets[s].out # << >>,
         NEW m \in Incoming, NEW in, NEW shaken \in BOOLEAN,
         Answering(in, sockets[s].in, m, served), Exchange(s, shaken, in)
  PROVE  AnswersInv'
<1>1. AllGood(sockets, nextId, pending, calls, served, setup.line)
  BY DEF AnswersInv, Messages
<1>2. sockets' \in Seq(Sockets) /\ Len(sockets') = Len(sockets)
      /\ AllGood(sockets', nextId, pending, calls, served, setup.line)
  BY <1>1, Exchanged
<1>3. Owed'
  BY DEF Owed, client, AnswersInv
<1>4. asks' \in Nat
  BY DEF budgets, Types, AnswersInv
<1>5. QED
  BY <1>2, <1>3, <1>4, ServerOnward DEF AnswersInv, Types

LEMMA ServerReadsAnswers ==
  ASSUME AnswersInv, NEW s \in 1 .. Len(sockets), ServerReads(s)
  PROVE  AnswersInv'
<1> USE DEF AnswersInv
<1> DEFINE m == Head(sockets[s].out)
           out == Tail(sockets[s].out)
           in == sockets[s].in
<1>1. UNCHANGED << setup, calls, client, budgets >> /\ sockets[s].out # << >>
      /\ ServerAnswers(s, m)
  BY DEF ServerReads
<1>2. sockets[s] \in Sockets /\ AllGood(sockets, nextId, pending, calls, served, setup.line)
  BY DEF Types, Messages
<1>3. m \in Outgoing /\ GoodOut(m, nextId, pending, calls)
  <2>1. sockets[s].out \in Seq(Outgoing) /\ GoodOuts(sockets[s].out, nextId, pending, calls)
    BY <1>2 DEF Sockets, AllGood
  <2>2. QED
    BY <1>1, <2>1, OutTail
<1>4. m.id \in Nat /\ m.kind \in {"initialize", "initialized", "start", "reply"}
  BY <1>3 DEF Outgoing
<1>5. asks' \in Nat
  BY <1>1 DEF budgets, Types
<1>6. CASE m.kind = "initialize"
  <2> DEFINE answer == Message("answer", m.id, 0)
  <2>1. answer \in Incoming /\ answer.kind = "answer" /\ answer.id = m.id /\ answer.ref = 0
    BY <1>4 DEF Message, Incoming
  <2>2. UNCHANGED served
        /\ Exchange(s, TRUE, Append(sockets[s].in, answer))
    BY <1>1, <1>6 DEF ServerAnswers, Exchange
  <2> HIDE DEF answer
  <2>3. GoodIn(answer, nextId, pending, calls, served, setup.line)
    BY <1>3, <1>6, <2>1 DEF GoodIn, GoodOut
  <2>4. Answering(Append(sockets[s].in, answer), sockets[s].in, answer, served)
    BY <2>3 DEF Answering
  <2> HIDE DEF m
  <2>5. QED
    BY <1>1, <2>1, <2>2, <2>4, ServerSays
<1>7. CASE UNCHANGED served /\ sockets' = [sockets EXCEPT ![s].out = Tail(@),
                                 ![s].in = Append(@, Message("error", m.id, 0))]
  <2> DEFINE answer == Message("error", m.id, 0)
  <2>1. answer \in Incoming /\ answer.kind = "error"
    BY <1>4 DEF Message, Incoming
  <2>2. Exchange(s, sockets[s].shaken, Append(sockets[s].in, answer))
    BY <1>2, <1>7 DEF Sockets, Exchange
  <2> HIDE DEF answer
  <2>3. GoodIn(answer, nextId, pending, calls, served, setup.line)
    BY <2>1 DEF GoodIn
  <2>4. sockets[s].shaken \in BOOLEAN
    BY <1>2 DEF Sockets
  <2>5. Answering(Append(sockets[s].in, answer), sockets[s].in, answer, served)
    BY <2>3 DEF Answering
  <2> HIDE DEF m
  <2>6. QED
    BY <1>1, <1>7, <2>1, <2>2, <2>4, <2>5, ServerSays
<1>8. CASE m.kind = "initialized"
  <2> DEFINE answer == Message("error", m.id, 0)
  <2>1. answer \in Incoming
    BY <1>4 DEF Message, Incoming
  <2>2. UNCHANGED served
        /\ Exchange(s, sockets[s].shaken, sockets[s].in)
    BY <1>1, <1>2, <1>8 DEF ServerAnswers, Sockets, Exchange
  <2> HIDE DEF answer
  <2>3. sockets[s].shaken \in BOOLEAN
    BY <1>2 DEF Sockets
  <2>4. Answering(sockets[s].in, sockets[s].in, answer, served)
    BY DEF Answering
  <2> HIDE DEF m
  <2>5. QED
    BY <1>1, <2>1, <2>2, <2>3, <2>4, ServerSays
<1>9. CASE m.kind = "start" /\ served' = Append(served, [conn |-> s, caller |-> m.ref,
                                       id |-> m.id, ask |-> 0, state |-> "running"])
           /\ sockets' = [sockets EXCEPT ![s].out = Tail(@),
                ![s].in = IF setup.line THEN @
                          ELSE Append(@, Message("answer", m.id, Len(served) + 1))]
  <2> DEFINE t == [conn |-> s, caller |-> m.ref, id |-> m.id, ask |-> 0, state |-> "running"]
             answer == Message("answer", m.id, Len(served) + 1)
             in2 == IF setup.line THEN sockets[s].in ELSE Append(sockets[s].in, answer)
  <2>1. m.ref \in Callers /\ m.id < nextId /\ Asked(m.id, m.ref, pending)
    BY <1>3, <1>9 DEF GoodOut
  <2>2. Len(served) \in Nat /\ s \in Nat /\ served \in Seq(ServedTurns)
    BY DEF Types
  <2>3. /\ answer \in Incoming /\ answer.kind = "answer" /\ answer.id = m.id
        /\ answer.ref = Len(served) + 1
    BY <1>4, <2>2 DEF Message, Incoming
  <2>4. t \in ServedTurns /\ t.caller = m.ref /\ t.id = m.id
    BY <1>4, <2>1, <2>2 DEF ServedTurns
  <2>5. served' = Append(served, t)
    BY <1>9
  <2>6. Exchange(s, sockets[s].shaken, in2)
    BY <1>2, <1>9 DEF Sockets, Exchange
  <2> HIDE DEF t, answer
  <2>7. served' \in Seq(ServedTurns) /\ Len(served') = Len(served) + 1
        /\ (\A u \in 1 .. Len(served) : served'[u] = served[u])
        /\ served'[Len(served) + 1] = t
    BY <2>2, <2>4, <2>5, AppendElems
  <2>8. AllGood(sockets, nextId, pending, calls, served', setup.line)
    BY <2>2, <2>7, ServedLasts
  <2>9. ~ setup.line => GoodIn(answer, nextId, pending, calls, served', setup.line)
    BY <2>1, <2>2, <2>3, <2>4, <2>7 DEF GoodIn
  <2>10. Answering(in2, sockets[s].in, answer, served')
    BY <2>9 DEF Answering
  <2>11. sockets[s].shaken \in BOOLEAN
    BY <1>2 DEF Sockets
  <2> HIDE DEF in2, m
  <2>12. sockets' \in Seq(Sockets) /\ Len(sockets') = Len(sockets)
         /\ AllGood(sockets', nextId, pending, calls, served', setup.line)
    BY <1>1, <2>3, <2>6, <2>8, <2>10, <2>11, Exchanged
  <2>13. Messages'
    BY <1>1, <2>12 DEF Messages, client
  <2>14. Owed'
    BY <1>1, <2>1, <2>2, <2>4, <2>7 DEF Owed, client
  <2>15. QED
    BY <1>1, <1>5, <2>2, <2>7, <2>12, <2>13, <2>14, ServerOnward
<1>10. CASE m.kind = "reply" /\ sockets' = [sockets EXCEPT ![s].out = Tail(@)]
            /\ served' = [t \in DOMAIN served |->
                 IF served[t].conn = s /\ served[t].state = "asking" /\ served[t].ask = m.id
                 THEN [served[t] EXCEPT !.state = "running"] ELSE served[t]]
  <2> DEFINE answer == Message("error", m.id, 0)
  <2>1. answer \in Incoming
    BY <1>4 DEF Message, Incoming
  <2>2. Exchange(s, sockets[s].shaken, sockets[s].in)
    BY <1>2, <1>10 DEF Sockets, Exchange
  <2> HIDE DEF answer
  <2>3. sockets[s].shaken \in BOOLEAN
    BY <1>2 DEF Sockets
  <2> HIDE DEF m
  <2>4. served \in Seq(ServedTurns) /\ Len(served) \in Nat
    BY DEF Types
  <2>5. DOMAIN served = 1 .. Len(served)
    BY <2>4
  <2>6. \A t \in 1 .. Len(served) : served[t] \in ServedTurns
    BY <2>4
  <2>7. \A t \in 1 .. Len(served) :
          /\ served[t] \in ServedTurns
          /\ [served[t] EXCEPT !.state = "running"] \in ServedTurns
          /\ [served[t] EXCEPT !.state = "running"].caller = served[t].caller
          /\ [served[t] EXCEPT !.state = "running"].id = served[t].id
    BY <2>6 DEF ServedTurns
  <2>8. served' \in [1 .. Len(served) -> ServedTurns]
    BY <1>10, <2>5, <2>7
  <2>9. served' \in Seq(ServedTurns) /\ Len(served') = Len(served)
    BY <2>4, <2>8
  <2>10. \A t \in 1 .. Len(served) :
          /\ served'[t].caller = served[t].caller /\ served'[t].id = served[t].id
          /\ served[t].state = "completed" => served'[t] = served[t]
    BY <1>10, <2>5, <2>7
  <2>11. AllGood(sockets, nextId, pending, calls, served', setup.line)
    BY <2>4, <2>9, <2>10, ServedLasts
  <2> DEFINE in2 == sockets[s].in
  <2>12. Answering(in2, sockets[s].in, answer, served')
    BY DEF Answering
  <2> HIDE DEF in2
  <2>13. sockets' \in Seq(Sockets) /\ Len(sockets') = Len(sockets)
         /\ AllGood(sockets', nextId, pending, calls, served', setup.line)
    BY <1>1, <2>1, <2>2, <2>3, <2>11, <2>12, Exchanged DEF in2
  <2>14. Messages'
    BY <1>1, <2>13 DEF Messages, client
  <2>15. Owed'
    BY <1>1, <2>9, <2>10 DEF Owed, client
  <2>16. QED
    BY <1>1, <1>5, <2>4, <2>9, <2>10, <2>13, <2>14, <2>15, ServerOnward
<1>11. QED
  BY <1>1, <1>6, <1>7, <1>8, <1>9, <1>10 DEF ServerAnswers

-----------------------------------------------------------------------------
(* No completion is missed: what the steps have in common.                  *)

(* The sockets go on as they are, but for what the client reads of one.     *)
Steady(s) ==
  /\ Len(sockets') = Len(sockets)
  /\ \A r \in 1 .. Len(sockets) :
       /\ sockets'[r].state = sockets[r].state
       /\ sockets'[r].listening = sockets[r].listening
       /\ sockets[r].state = "connecting" => sockets'[r].out = sockets[r].out
       /\ sockets'[r].in = IF r = s THEN Tail(sockets[r].in) ELSE sockets[r].in
  /\ s # 0 => sockets[s].in # << >>

(* Calls go on as they were, or start a turn, or end.                       *)
Remaining ==
  \A c \in Callers :
    /\ calls'[c].conn = calls[c].conn
    /\ calls'[c] = calls[c] \/ calls'[c].pc \in {"failed", "done", "starting"}

LEMMA InSequenceTail ==
  ASSUME NEW q \in Seq(Incoming), q # << >>, NEW s, NEW sv, InSequence(q, s, sv)
  PROVE  InSequence(Tail(q), s, sv)
<1>1. /\ Tail(q) \in Seq(Incoming) /\ Len(Tail(q)) = Len(q) - 1 /\ Len(q) \in Nat \ {0}
      /\ \A i \in 1 .. Len(q) - 1 : Tail(q)[i] = q[i + 1]
  BY TailElems
<1> DEFINE p == Tail(q)
<1> HIDE DEF p
<1>2. Len(p) = Len(q) - 1 /\ Len(q) \in Nat \ {0}
      /\ \A i \in 1 .. Len(q) - 1 : p[i] = q[i + 1]
  BY <1>1 DEF p
<1>3. ASSUME NEW i \in 1 .. Len(p), p[i].kind = "answer", p[i].ref # 0
      PROVE  /\ sv[p[i].ref].conn = s
             /\ sv[p[i].ref].state = "completed" =>
                  \E j \in i + 1 .. Len(p) : p[j] = Completed(p[i].ref)
  <2>1. i + 1 \in 1 .. Len(q) /\ p[i] = q[i + 1]
    BY <1>2
  <2>2. sv[p[i].ref].conn = s
    BY <1>3, <2>1 DEF InSequence
  <2>3. ASSUME sv[p[i].ref].state = "completed"
        PROVE  \E j \in i + 1 .. Len(p) : p[j] = Completed(p[i].ref)
    <3>1. PICK j \in i + 2 .. Len(q) : q[j] = Completed(p[i].ref)
      BY <1>3, <2>1, <2>3 DEF InSequence
    <3>2. j - 1 \in i + 1 .. Len(p) /\ p[j - 1] = q[j]
      BY <1>2, <3>1
    <3>3. QED
      BY <3>1, <3>2
  <2>4. QED
    BY <2>2, <2>3
<1>4. InSequence(p, s, sv)
  BY <1>3 DEF InSequence
<1>5. QED
  BY <1>4 DEF p

(* Something else is read before a completion.                              *)
LEMMA ContainsTail ==
  ASSUME NEW S, NEW q \in Seq(S), q # << >>, NEW m, Contains(q, m), Head(q) # m
  PROVE  Contains(Tail(q), m)
<1>1. PICK i \in 1 .. Len(q) : q[i] = m
  BY DEF Contains
<1>2. Len(Tail(q)) = Len(q) - 1 /\ Len(q) \in Nat \ {0}
      /\ (\A j \in 1 .. Len(q) - 1 : Tail(q)[j] = q[j + 1]) /\ Head(q) = q[1]
  BY TailElems
<1>3. i - 1 \in 1 .. Len(Tail(q)) /\ Tail(q)[i - 1] = m
  BY <1>1, <1>2
<1>4. QED
  BY <1>3 DEF Contains

LEMMA ReadOn ==
  ASSUME Types, Types', CompletionsInv, NEW s \in 0 .. Len(sockets), Steady(s),
         \A c \in Callers :
           /\ calls'[c].conn = calls[c].conn
           /\ calls'[c].pc \in {"connecting", "handshake"} => calls'[c].pc = calls[c].pc,
         UNCHANGED << setup, served >>
  PROVE  Connections' /\ Carried' /\ Sequenced'
<1> USE DEF CompletionsInv
<1>1. Len(sockets) \in Nat /\ Len(sockets') = Len(sockets)
      /\ \A r \in 1 .. Len(sockets) : sockets[r].in \in Seq(Incoming)
  <2>1. \A r \in 1 .. Len(sockets) : sockets[r] \in Sockets
    BY DEF Types
  <2>2. QED
    BY <2>1 DEF Types, Steady, Sockets
<1>2. Connections'
  BY <1>1 DEF Connections, Steady
<1>3. Carried'
  <2>1. ASSUME NEW r \in 1 .. Len(sockets)
        PROVE  /\ sockets'[r].state = "connecting" => ~ sockets'[r].listening
                    /\ sockets'[r].out = << >>
               /\ sockets'[r].state \in {"connecting", "closed"} => sockets'[r].in = << >>
    BY DEF Carried, Steady
  <2>2. \A t \in 1 .. Len(served) : served[t].conn \in 1 .. Len(sockets)
          /\ sockets'[served[t].conn].state # "connecting"
    BY DEF Carried, Steady
  <2>3. QED
    BY <1>1, <2>1, <2>2 DEF Carried
<1>4. Sequenced'
  <2>1. SUFFICES ASSUME ~ setup.line, NEW r \in 1 .. Len(sockets)
                 PROVE  InSequence(sockets'[r].in, r, served)
    BY <1>1 DEF Sequenced
  <2>2. InSequence(sockets[r].in, r, served)
    BY <2>1 DEF Sequenced
  <2>3. CASE r = s
    <3>1. sockets'[r].in = Tail(sockets[r].in) /\ sockets[r].in # << >>
      BY <2>3 DEF Steady
    <3>2. QED
      BY <1>1, <2>2, <3>1, InSequenceTail
  <2>4. CASE r # s
    BY <2>2, <2>4 DEF Steady
  <2>5. QED
    BY <2>3, <2>4
<1>5. QED
  BY <1>2, <1>3, <1>4

(* Who waits has a turn.                                                    *)
LEMMA WaitingTurns ==
  ASSUME AnswersInv, Carried, NEW c \in Callers, calls[c].pc \in {"answered", "turn"}
  PROVE  /\ calls[c].turn \in 1 .. Len(served) /\ served[calls[c].turn].caller = c
         /\ served[calls[c].turn].conn \in 1 .. Len(sockets)
BY DEF AnswersInv, Turns, OwnTurn, Carried

LEMMA ComingOn ==
  ASSUME AnswersInv, CompletionsInv, NEW s \in 0 .. Len(sockets), Steady(s),
         UNCHANGED << setup, served >>, ~ setup.batched, NEW c \in Callers,
         calls'[c] = calls[c], calls'[c].pc \in {"answered", "turn"},
         s # 0 => Head(sockets[s].in) # Completed(calls[c].turn)
  PROVE  Coming(calls'[c].turn, sockets', served')
<1> USE DEF CompletionsInv
<1> DEFINE t == calls[c].turn
           r == served[t].conn
<1>1. t \in 1 .. Len(served) /\ r \in 1 .. Len(sockets)
  BY WaitingTurns
<1>2. Coming(t, sockets, served)
  BY DEF Awaited
<1>3. sockets[r].in \in Seq(Incoming)
  <2>1. sockets[r] \in Sockets
    BY <1>1 DEF AnswersInv, Types
  <2>2. QED
    BY <2>1 DEF Sockets
<1>4. Contains(sockets[r].in, Completed(t)) => Contains(sockets'[r].in, Completed(t))
  <2>1. CASE r = s
    <3>1. sockets'[r].in = Tail(sockets[r].in) /\ sockets[r].in # << >>
          /\ Head(sockets[r].in) # Completed(t)
      BY <1>1, <2>1 DEF Steady
    <3>2. QED
      BY <1>3, <3>1, ContainsTail
  <2>2. CASE r # s
    BY <1>1, <2>2 DEF Steady
  <2>3. QED
    BY <2>1, <2>2
<1>5. QED
  BY <1>1, <1>2, <1>4 DEF Coming, Steady

LEMMA AwaitedOn ==
  ASSUME AnswersInv, CompletionsInv, NEW s \in 0 .. Len(sockets), Steady(s), Remaining,
         UNCHANGED << setup, served >>,
         s # 0 /\ ~ setup.batched =>
           \A c \in Callers : calls'[c].pc \in {"answered", "turn"} =>
             Head(sockets[s].in) # Completed(calls[c].turn)
  PROVE  Awaited'
<1>1. ASSUME ~ setup.batched, NEW c \in Callers, calls'[c].pc \in {"answered", "turn"}
      PROVE  Coming(calls'[c].turn, sockets', served')
  <2>1. calls'[c] = calls[c]
    BY <1>1 DEF Remaining
  <2>2. s # 0 => Head(sockets[s].in) # Completed(calls[c].turn)
    BY <1>1
  <2>3. QED
    BY <1>1, <2>1, <2>2, ComingOn
<1>2. QED
  BY <1>1 DEF Awaited

LEMMA ListedOn ==
  ASSUME AnswersInv, Listed, Remaining, UNCHANGED setup,
         \A t \in turns : t \in turns' \/ calls'[t.caller].pc # "turn"
  PROVE  Listed'
<1>1. ASSUME NEW c \in Callers, calls'[c].pc = "turn"
      PROVE  [turn |-> calls'[c].turn, caller |-> c] \in turns'
  <2> DEFINE t == [turn |-> calls[c].turn, caller |-> c]
  <2>1. calls'[c] = calls[c]
    BY <1>1 DEF Remaining
  <2>2. t \in turns
    BY <1>1, <2>1 DEF Listed
  <2>3. t.caller = c
    OBVIOUS
  <2> HIDE DEF t
  <2>4. t \in turns'
    BY <1>1, <2>2, <2>3
  <2>5. QED
    BY <2>1, <2>4 DEF t
<1>2. setup.line => \A c \in Callers : calls'[c].pc \notin {"answered", "turn"}
  BY DEF Listed, Remaining
<1>3. QED
  BY <1>1, <1>2 DEF Listed

(* Nothing is read.                                                         *)
LEMMA NothingRead ==
  ASSUME AnswersInv, AnswersInv', CompletionsInv, Steady(0), Remaining,
         UNCHANGED << setup, served >>,
         \A t \in turns : t \in turns' \/ calls'[t.caller].pc # "turn"
  PROVE  CompletionsInv'
<1>1. Len(sockets) \in Nat
  BY DEF AnswersInv, Types
<1>2. Connections' /\ Carried' /\ Sequenced'
  BY <1>1, ReadOn DEF AnswersInv, Remaining
<1>3. Awaited'
  BY <1>1, AwaitedOn
<1>4. Listed'
  BY ListedOn DEF CompletionsInv
<1>5. QED
  BY <1>2, <1>3, <1>4 DEF CompletionsInv

LEMMA SameSockets ==
  ASSUME Types, UNCHANGED sockets
  PROVE  Steady(0)
<1>1. \A r \in 1 .. Len(sockets) : r # 0
  BY DEF Types
<1>2. QED
  BY <1>1 DEF Steady

LEMMA RequestTimesOutCompletions ==
  ASSUME AnswersInv, AnswersInv', CompletionsInv, NEW p \in pending, RequestTimesOut(p)
  PROVE  CompletionsInv'
<1>1. UNCHANGED << setup, turns, sockets, served >>
      /\ calls' = IF Waits(p.caller, p)
                  THEN [calls EXCEPT ![p.caller].pc = "failed"] ELSE calls
  BY DEF RequestTimesOut
<1>2. Remaining
  BY <1>1 DEF Remaining, AnswersInv, Types, Calls
<1>3. QED
  BY <1>1, <1>2, SameSockets, NothingRead DEF AnswersInv

LEMMA TurnTimesOutCompletions ==
  ASSUME AnswersInv, AnswersInv', CompletionsInv, NEW t \in turns, TurnTimesOut(t)
  PROVE  CompletionsInv'
<1>1. UNCHANGED << setup, sockets, served >> /\ turns' = turns \ {t}
      /\ calls' = [calls EXCEPT ![t.caller].pc = "failed"]
  BY DEF TurnTimesOut
<1>2. t.caller \in Callers /\ calls \in [Callers -> Calls]
  BY DEF AnswersInv, Types
<1>3. Remaining /\ calls'[t.caller].pc = "failed"
  BY <1>1, <1>2 DEF Remaining, Calls
<1>4. \A u \in turns : u \in turns' \/ calls'[u.caller].pc # "turn"
  BY <1>1, <1>3
<1>5. QED
  BY <1>1, <1>3, <1>4, SameSockets, NothingRead DEF AnswersInv

LEMMA SocketFailsCompletions ==
  ASSUME AnswersInv, AnswersInv', CompletionsInv, NEW s \in 1 .. Len(sockets), SocketFails(s)
  PROVE  CompletionsInv'
<1>1. UNCHANGED << setup, sockets, served, nextId >> /\ RejectPending
  BY DEF SocketFails
<1>2. \A c \in Callers : /\ calls'[c].conn = calls[c].conn
                         /\ calls'[c].pc = "failed" \/ calls'[c] = calls[c]
                         /\ calls[c].pc = "turn" => calls'[c].pc = "failed"
  BY <1>1, Rejected
<1>3. Remaining
  BY <1>2 DEF Remaining
<1>4. \A t \in turns : calls'[t.caller].pc # "turn"
  BY <1>2 DEF AnswersInv, Turns, Types
<1>5. QED
  BY <1>1, <1>3, <1>4, SameSockets, NothingRead DEF AnswersInv

LEMMA ReplyCompletions ==
  ASSUME AnswersInv, AnswersInv', CompletionsInv, NEW h \in handling, Reply(h)
  PROVE  CompletionsInv'
<1>1. UNCHANGED << setup, calls, turns, served >>
  BY DEF Reply
<1>2. Remaining
  BY <1>1 DEF Remaining
<1>3. Steady(0)
  <2>1. CASE socket = 0
    BY <2>1, SameSockets DEF Reply, AnswersInv
  <2>2. CASE socket # 0
    <3> DEFINE m == Message("reply", h.id, h.conn)
    <3>1. socket \in 1 .. Len(sockets) /\ sockets' = Sent(sockets, socket, m)
      BY <2>2 DEF Reply, AnswersInv, Types
    <3>2. m \in Outgoing /\ m.kind = "reply"
      BY DEF Message, Outgoing, AnswersInv, Types
    <3> HIDE DEF m
    <3>3. GoodOut(m, nextId, pending, calls)
      BY <3>2 DEF GoodOut
    <3>4. sockets \in Seq(Sockets) /\ AllGood(sockets, nextId, pending, calls, served, setup.line)
      BY DEF AnswersInv, Types, Messages
    <3>5. Len(sockets') = Len(sockets)
          /\ \A r \in 1 .. Len(sockets) :
               /\ sockets'[r].state = sockets[r].state
               /\ sockets'[r].listening = sockets[r].listening
               /\ sockets'[r].in = sockets[r].in
               /\ sockets[r].state = "connecting" => sockets'[r].out = sockets[r].out
      BY <3>1, <3>2, <3>3, <3>4, SentGood
    <3>6. \A r \in 1 .. Len(sockets) : r # 0
      BY <3>4
    <3>7. QED
      BY <3>5, <3>6 DEF Steady
  <2>3. QED
    BY <2>1, <2>2
<1>4. QED
  BY <1>1, <1>2, <1>3, NothingRead

LEMMA AwaitTurnCompletions ==
  ASSUME AnswersInv, AnswersInv', CompletionsInv, NEW c \in Callers, AwaitTurn(c)
  PROVE  CompletionsInv'
<1> USE DEF CompletionsInv
<1>1. UNCHANGED << setup, sockets, served >> /\ calls[c].pc = "answered"
      /\ turns' = turns \cup {[turn |-> calls[c].turn, caller |-> c]}
      /\ calls' = [calls EXCEPT ![c].pc = "turn"]
  BY DEF AwaitTurn
<1>2. calls'[c].pc = "turn" /\ calls'[c].turn = calls[c].turn
      /\ \A d \in Callers : d # c => calls'[d] = calls[d]
  BY <1>1 DEF AnswersInv, Types, Calls
<1>3. Connections' /\ Carried' /\ Sequenced'
  BY <1>1, <1>2 DEF Connections, Carried, Sequenced
<1>4. Listed'
  BY <1>1, <1>2 DEF Listed
<1>5. Awaited'
  BY <1>1, <1>2 DEF Awaited
<1>6. QED
  BY <1>3, <1>4, <1>5

LEMMA CallCompletions ==
  ASSUME AnswersInv, AnswersInv', CompletionsInv, NEW c \in Callers, Call(c)
  PROVE  CompletionsInv'
<1> USE DEF CompletionsInv
<1>1. UNCHANGED << setup, turns, served >> /\ calls[c].pc \in {"idle", "done", "failed"}
  BY DEF Call
<1>2. CASE SendRequest(c, "start", sockets, pending)
  <2>1. sockets \in Seq(Sockets) /\ AllGood(sockets, nextId, pending, calls, served, setup.line)
        /\ Types /\ Numbers
    BY DEF AnswersInv, Types, Messages
  <2>2. Remaining
    BY <1>1, <1>2, <2>1, RequestEntered DEF Remaining
  <2>3. /\ Len(sockets') = Len(sockets)
        /\ \A r \in 1 .. Len(sockets) :
             /\ sockets'[r].state = sockets[r].state
             /\ sockets'[r].listening = sockets[r].listening
             /\ sockets'[r].in = sockets[r].in
             /\ sockets[r].state = "connecting" => sockets'[r].out = sockets[r].out
    BY <1>1, <1>2, <2>1, RequestSent
  <2>4. \A r \in 1 .. Len(sockets) : r # 0
    BY <2>1
  <2>5. Steady(0)
    BY <2>3, <2>4 DEF Steady
  <2>6. QED
    BY <1>1, <2>2, <2>5, NothingRead
<1>3. CASE /\ sockets' = Append(sockets, Connecting)
           /\ calls' = [calls EXCEPT ![c] = [Idle EXCEPT !.pc = "connecting",
                                                         !.conn = Len(sockets) + 1]]
  <2> DEFINE n == Len(sockets)
  <2>1. n \in Nat /\ calls \in [Callers -> Calls] /\ sockets \in Seq(Sockets)
    BY DEF AnswersInv, Types
  <2>2. calls'[c].pc = "connecting" /\ calls'[c].conn = n + 1
        /\ \A d \in Callers : d # c => calls'[d] = calls[d]
    BY <1>3, <2>1 DEF Idle
  <2>3. Connecting \in Sockets
    BY DEF Connecting, Sockets
  <2>4. /\ Len(sockets') = n + 1 /\ sockets'[n + 1] = Connecting
        /\ \A r \in 1 .. n : sockets'[r] = sockets[r]
    BY <1>3, <2>1, <2>3, AppendElems
  <2>5. Connecting.state = "connecting" /\ ~ Connecting.listening
        /\ Connecting.out = << >> /\ Connecting.in = << >>
    BY DEF Connecting
  <2> HIDE DEF n
  <2>6. Connections'
    <3>1. \A d \in Callers : d # c /\ calls'[d].pc \in {"connecting", "handshake"} =>
            calls'[d].conn \in 1 .. n
      BY <2>2 DEF Connections, n
    <3>2. ASSUME NEW d \in Callers
          PROVE  /\ calls'[d].pc \in {"connecting", "handshake"} => calls'[d].conn \in 1 .. n + 1
                 /\ calls'[d].pc = "connecting" => sockets'[calls'[d].conn].state = "connecting"
      BY <2>1, <2>2, <2>4, <2>5, <3>1 DEF Connections
    <3>3. ASSUME NEW d \in Callers, NEW e \in Callers, calls'[d].pc = "connecting",
                 calls'[e].pc = "connecting", calls'[d].conn = calls'[e].conn
          PROVE  d = e
      BY <2>1, <2>2, <3>1, <3>3 DEF Connections
    <3>4. QED
      BY <2>4, <3>2, <3>3 DEF Connections
  <2>7. Carried'
    <3>1. ASSUME NEW r \in 1 .. n + 1
          PROVE  /\ sockets'[r].state = "connecting" => ~ sockets'[r].listening
                      /\ sockets'[r].out = << >>
                 /\ sockets'[r].state \in {"connecting", "closed"} => sockets'[r].in = << >>
      <4>1. CASE r = n + 1
        BY <2>4, <2>5, <4>1
      <4>2. CASE r \in 1 .. n
        BY <2>4, <4>2 DEF Carried, n
      <4>3. QED
        BY <2>1, <4>1, <4>2
    <3>2. \A t \in 1 .. Len(served) : served[t].conn \in 1 .. n
            /\ sockets[served[t].conn].state # "connecting"
      BY DEF Carried, n
    <3>3. \A t \in 1 .. Len(served) : served[t].conn \in 1 .. n + 1
            /\ sockets'[served[t].conn].state # "connecting"
      BY <2>1, <2>4, <3>2
    <3>4. QED
      BY <1>1, <2>4, <3>1, <3>3 DEF Carried
  <2>8. Sequenced'
    <3>1. SUFFICES ASSUME ~ setup.line, NEW r \in 1 .. n + 1
                   PROVE  InSequence(sockets'[r].in, r, served)
      BY <1>1, <2>4 DEF Sequenced
    <3>2. CASE r = n + 1
      BY <2>4, <2>5, <3>2 DEF InSequence
    <3>3. CASE r \in 1 .. n
      BY <2>4, <3>1, <3>3 DEF Sequenced, n
    <3>4. QED
      BY <2>1, <3>2, <3>3
  <2>9. Listed'
    BY <1>1, <2>2 DEF Listed
  <2>10. Awaited'
    <3>1. SUFFICES ASSUME ~ setup.batched, NEW d \in Callers,
                          calls'[d].pc \in {"answered", "turn"}
                   PROVE  Coming(calls'[d].turn, sockets', served)
      BY <1>1 DEF Awaited
    <3>2. calls'[d] = calls[d]
      BY <2>2, <3>1
    <3>3. served[calls[d].turn].conn \in 1 .. n
      BY <3>1, <3>2, WaitingTurns DEF n
    <3>4. QED
      BY <2>4, <3>1, <3>2, <3>3 DEF Awaited, Coming
  <2>11. QED
    BY <2>6, <2>7, <2>8, <2>9, <2>10
<1>4. QED
  BY <1>2, <1>3 DEF Call

(* A socket is not waited for any more: it is open, or given up.            *)
LEMMA LeavesConnecting ==
  ASSUME AnswersInv, AnswersInv', CompletionsInv, NEW s \in 1 .. Len(sockets),
         sockets[s].state = "connecting", sockets'[s].state \in {"open", "closed"},
         sockets'[s].in = sockets[s].in, Len(sockets') = Len(sockets),
         \A r \in 1 .. Len(sockets) : r # s =>
           /\ sockets'[r].state = sockets[r].state
           /\ sockets'[r].listening = sockets[r].listening
           /\ sockets'[r].in = sockets[r].in
           /\ sockets[r].state = "connecting" => sockets'[r].out = sockets[r].out,
         \A c \in Callers :
           /\ calls'[c].conn = calls[c].conn
           /\ \/ calls'[c] = calls[c] /\ ~ (calls[c].pc = "connecting" /\ calls[c].conn = s)
              \/ calls'[c].pc \in {"failed", "handshake"} /\ calls[c].pc = "connecting",
         UNCHANGED << setup, served, turns >>
  PROVE  CompletionsInv'
<1> USE DEF CompletionsInv
<1>1. Len(sockets) \in Nat
  BY DEF AnswersInv, Types
<1>2. Connections'
  BY DEF Connections
<1>3. Carried'
  <2>1. ASSUME NEW r \in 1 .. Len(sockets)
        PROVE  /\ sockets'[r].state = "connecting" => ~ sockets'[r].listening
                    /\ sockets'[r].out = << >>
               /\ sockets'[r].state \in {"connecting", "closed"} => sockets'[r].in = << >>
    BY DEF Carried
  <2>2. \A t \in 1 .. Len(served) : served[t].conn \in 1 .. Len(sockets)
          /\ sockets'[served[t].conn].state # "connecting"
    BY DEF Carried
  <2>3. QED
    BY <2>1, <2>2 DEF Carried
<1>4. Sequenced'
  BY DEF Sequenced
<1>5. Listed'
  BY DEF Listed
<1>6. Awaited'
  <2>1. SUFFICES ASSUME ~ setup.batched, NEW d \in Callers,
                        calls'[d].pc \in {"answered", "turn"}
                 PROVE  Coming(calls'[d].turn, sockets', served)
    BY DEF Awaited
  <2>2. calls'[d] = calls[d]
    BY <2>1
  <2>3. served[calls[d].turn].conn \in 1 .. Len(sockets)
        /\ Coming(calls[d].turn, sockets, served)
    BY <2>1, <2>2, WaitingTurns DEF Awaited
  <2>4. served[calls[d].turn].conn # s
    BY <2>3 DEF Coming
  <2>5. QED
    BY <2>2, <2>3, <2>4 DEF Coming
<1>7. QED
  BY <1>2, <1>3, <1>4, <1>5, <1>6

LEMMA OpenedUnheardCompletions ==
  ASSUME AnswersInv, AnswersInv', CompletionsInv, NEW s \in 1 .. Len(sockets),
         OpenedUnheard(s)
  PROVE  CompletionsInv'
<1>1. /\ UNCHANGED << setup, calls, turns, served >> /\ sockets[s].state = "connecting"
      /\ \A c \in Callers : ~ (calls[c].pc = "connecting" /\ calls[c].conn = s)
      /\ sockets' = Restated(sockets, s, "open")
  BY DEF OpenedUnheard, client, Restated
<1>2. sockets \in Seq(Sockets) /\ AllGood(sockets, nextId, pending, calls, served, setup.line)
  BY DEF AnswersInv, Types, Messages
<1>3. /\ Len(sockets') = Len(sockets)
      /\ \A r \in 1 .. Len(sockets) :
           /\ sockets'[r].state = IF r = s THEN "open" ELSE sockets[r].state
           /\ sockets'[r].listening = sockets[r].listening
           /\ sockets'[r].in = sockets[r].in /\ sockets'[r].out = sockets[r].out
  BY <1>1, <1>2, RestatedGood
<1>4. QED
  BY <1>1, <1>3, LeavesConnecting

LEMMA ConnectFailsCompletions ==
  ASSUME AnswersInv, AnswersInv', CompletionsInv, NEW c \in Callers, ConnectFails(c)
  PROVE  CompletionsInv'
<1>1. UNCHANGED << setup, turns, served >> /\ calls[c].pc = "connecting"
      /\ calls' = [calls EXCEPT ![c].pc = "failed"]
  BY DEF ConnectFails, client
<1>2. calls'[c].pc = "failed"
      /\ \A d \in Callers : calls'[d].conn = calls[d].conn /\ (d # c => calls'[d] = calls[d])
  BY <1>1 DEF AnswersInv, Types, Calls
<1>3. CASE UNCHANGED sockets
  <2>1. Remaining
    BY <1>2 DEF Remaining
  <2>2. QED
    BY <1>1, <1>3, <2>1, SameSockets, NothingRead DEF AnswersInv
<1>4. CASE sockets' = [sockets EXCEPT ![calls[c].conn].state = "closed"]
  <2> DEFINE s == calls[c].conn
  <2>1. s \in 1 .. Len(sockets) /\ sockets[s].state = "connecting"
        /\ \A d \in Callers : d # c => ~ (calls[d].pc = "connecting" /\ calls[d].conn = s)
    BY <1>1 DEF CompletionsInv, Connections
  <2>2. sockets' = Restated(sockets, s, "closed")
    BY <1>4 DEF Restated
  <2> HIDE DEF s
  <2>3. sockets \in Seq(Sockets) /\ AllGood(sockets, nextId, pending, calls, served, setup.line)
    BY DEF AnswersInv, Types, Messages
  <2>4. /\ Len(sockets') = Len(sockets)
        /\ \A r \in 1 .. Len(sockets) :
             /\ sockets'[r].state = IF r = s THEN "closed" ELSE sockets[r].state
             /\ sockets'[r].listening = sockets[r].listening
             /\ sockets'[r].in = sockets[r].in /\ sockets'[r].out = sockets[r].out
    BY <2>1, <2>2, <2>3, RestatedGood
  <2>5. QED
    BY <1>1, <1>2, <2>1, <2>4, LeavesConnecting
<1>5. QED
  BY <1>3, <1>4 DEF ConnectFails

LEMMA OpenedCompletions ==
  ASSUME AnswersInv, AnswersInv', CompletionsInv, NEW c \in Callers, Opened(c)
  PROVE  CompletionsInv'
<1> DEFINE s == calls[c].conn
           k == [sockets[s] EXCEPT !.state = "open", !.listening = TRUE]
           all == [sockets EXCEPT ![s].state = "open", ![s].listening = TRUE]
<1>1. UNCHANGED << setup, turns, served >>
      /\ calls[c].pc = "connecting" /\ SendRequest(c, "initialize", all, pending)
  BY DEF Opened
<1>2. s \in 1 .. Len(sockets) /\ sockets[s].state = "connecting"
      /\ \A d \in Callers : d # c => ~ (calls[d].pc = "connecting" /\ calls[d].conn = s)
  BY <1>1 DEF CompletionsInv, Connections
<1>3. sockets[s] \in Sockets /\ sockets \in Seq(Sockets)
      /\ AllGood(sockets, nextId, pending, calls, served, setup.line)
      /\ Types /\ Numbers
  BY <1>2 DEF AnswersInv, Types, Messages
<1>4. k \in Sockets /\ k.out = sockets[s].out /\ k.in = sockets[s].in /\ k.state = "open"
  BY <1>3 DEF Sockets
<1>5. all = [sockets EXCEPT ![s] = k]
  OBVIOUS
<1> HIDE DEF k, all, s
<1>6. GoodOuts(k.out, nextId, pending, calls)
      /\ GoodIns(k.in, nextId, pending, calls, served, setup.line)
  BY <1>2, <1>3, <1>4 DEF AllGood
<1>7. [sockets EXCEPT ![s] = k] \in Seq(Sockets)
      /\ Len([sockets EXCEPT ![s] = k]) = Len(sockets)
      /\ AllGood([sockets EXCEPT ![s] = k], nextId, pending, calls, served, setup.line)
      /\ \A r \in 1 .. Len(sockets) :
           [sockets EXCEPT ![s] = k][r] = IF r = s THEN k ELSE sockets[r]
  BY <1>2, <1>3, <1>4, <1>6, OneChanged
<1>8. all \in Seq(Sockets) /\ Len(all) = Len(sockets)
      /\ AllGood(all, nextId, pending, calls, served, setup.line)
      /\ \A r \in 1 .. Len(sockets) : all[r] = IF r = s THEN k ELSE sockets[r]
  BY <1>5, <1>7
<1>9. /\ \A d \in Callers \ {c} : calls'[d] = calls[d]
      /\ calls'[c].pc \in {"failed", "handshake", "starting"}
      /\ calls'[c].conn = calls[c].conn
      /\ socket # 0 => calls'[c].pc # "starting"
  BY <1>1, <1>3, <1>8, RequestEntered
<1>10. socket = 0 => calls'[c].pc = "failed"
  BY <1>1, <1>3 DEF SendRequest, Types, Calls
<1>11. /\ Len(sockets') = Len(all)
       /\ \A r \in 1 .. Len(all) :
            /\ sockets'[r].state = all[r].state
            /\ sockets'[r].listening = all[r].listening
            /\ sockets'[r].in = all[r].in
            /\ all[r].state = "connecting" => sockets'[r].out = all[r].out
  BY <1>1, <1>3, <1>8, RequestSent
<1>12. QED
  BY <1>1, <1>2, <1>4, <1>8, <1>9, <1>10, <1>11, LeavesConnecting

LEMMA SocketClosesCompletions ==
  ASSUME AnswersInv, AnswersInv', CompletionsInv, NEW s \in 1 .. Len(sockets),
         SocketCloses(s)
  PROVE  CompletionsInv'
<1> USE DEF CompletionsInv
<1> DEFINE k == [sockets[s] EXCEPT !.state = "closed", !.in = << >>, !.out = << >>]
<1>1. UNCHANGED << setup, served, nextId >> /\ Quiet
      /\ sockets[s].state \in {"open", "closing"}
      /\ sockets' = [sockets EXCEPT ![s] = k]
  BY DEF SocketCloses
<1>2. sockets \in Seq(Sockets) /\ sockets[s] \in Sockets
  BY DEF AnswersInv, Types
<1>3. k.in = << >> /\ k.out = << >> /\ k.state = "closed"
      /\ k.listening = sockets[s].listening
  BY <1>2 DEF Sockets
<1> HIDE DEF k
<1>4. Len(sockets') = Len(sockets)
      /\ \A r \in 1 .. Len(sockets) : sockets'[r] = IF r = s THEN k ELSE sockets[r]
  BY <1>1, <1>2
<1>5. Carried'
  <2>1. ASSUME NEW r \in 1 .. Len(sockets)
        PROVE  /\ sockets'[r].state = "connecting" => ~ sockets'[r].listening
                    /\ sockets'[r].out = << >>
               /\ sockets'[r].state \in {"connecting", "closed"} => sockets'[r].in = << >>
    BY <1>3, <1>4 DEF Carried
  <2>2. \A t \in 1 .. Len(served) : served[t].conn \in 1 .. Len(sockets)
          /\ sockets'[served[t].conn].state # "connecting"
    BY <1>3, <1>4 DEF Carried
  <2>3. QED
    BY <1>1, <1>4, <2>1, <2>2 DEF Carried
<1>6. Sequenced'
  <2>1. SUFFICES ASSUME ~ setup.line, NEW r \in 1 .. Len(sockets)
                 PROVE  InSequence(sockets'[r].in, r, served)
    BY <1>1, <1>4 DEF Sequenced
  <2>2. CASE r = s
    BY <1>3, <1>4, <2>2 DEF InSequence
  <2>3. CASE r # s
    BY <1>4, <2>1, <2>3 DEF Sequenced
  <2>4. QED
    BY <2>2, <2>3
<1>7. CASE RejectPending
  <2>1. \A c \in Callers : /\ calls'[c].conn = calls[c].conn
                           /\ calls'[c].pc = "failed" \/ calls'[c] = calls[c]
                           /\ calls[c].pc = "turn" => calls'[c].pc = "failed"
    BY <1>1, <1>7, Rejected
  <2>2. \A c \in Callers : calls'[c].pc \notin {"answered", "turn"}
    BY <1>1, <2>1 DEF Quiet
  <2>3. Connections'
    BY <1>1, <1>4, <2>1 DEF Connections
  <2>4. QED
    BY <1>5, <1>6, <2>2, <2>3 DEF Listed, Awaited
<1>8. CASE ~ sockets[s].listening /\ UNCHANGED << calls, turns >>
  <2>1. Connections'
    BY <1>1, <1>4, <1>8 DEF Connections
  <2>2. Listed'
    BY <1>1, <1>8 DEF Listed
  <2>3. Awaited'
    <3>1. SUFFICES ASSUME ~ setup.batched, NEW c \in Callers,
                          calls[c].pc \in {"answered", "turn"}
                   PROVE  Coming(calls[c].turn, sockets', served)
      BY <1>1, <1>8 DEF Awaited
    <3>2. served[calls[c].turn].conn \in 1 .. Len(sockets)
          /\ Coming(calls[c].turn, sockets, served)
      BY <3>1, WaitingTurns DEF Awaited
    <3>3. served[calls[c].turn].conn # s
      BY <1>8, <3>2 DEF Coming
    <3>4. QED
      BY <1>4, <3>2, <3>3 DEF Coming
  <2>4. QED
    BY <1>5, <1>6, <2>1, <2>2, <2>3
<1>9. QED
  BY <1>7, <1>8 DEF SocketCloses

LEMMA CloseCompletions ==
  ASSUME AnswersInv, AnswersInv', CompletionsInv, Close
  PROVE  CompletionsInv'
<1> USE DEF CompletionsInv
<1>1. UNCHANGED << setup, served, nextId >> /\ Quiet /\ RejectPending
  BY DEF Close
<1>2. \A c \in Callers : /\ calls'[c].conn = calls[c].conn
                         /\ calls'[c].pc = "failed" \/ calls'[c] = calls[c]
                         /\ calls[c].pc = "turn" => calls'[c].pc = "failed"
  BY <1>1, Rejected
<1>3. \A c \in Callers : calls'[c].pc \notin {"answered", "turn"}
  BY <1>1, <1>2 DEF Quiet
<1>4. /\ Len(sockets') = Len(sockets)
      /\ \A r \in 1 .. Len(sockets) :
           /\ \/ sockets'[r].state = sockets[r].state
              \/ sockets[r].state = "open" /\ sockets'[r].state = "closing"
           /\ sockets'[r].listening = sockets[r].listening
           /\ sockets'[r].in = sockets[r].in /\ sockets'[r].out = sockets[r].out
  <2>1. sockets \in Seq(Sockets) /\ AllGood(sockets, nextId, pending, calls, served, setup.line)
        /\ socket \in 0 .. Len(sockets)
    BY DEF AnswersInv, Types, Messages
  <2>2. CASE socket # 0 /\ sockets[socket].state = "open"
    <3> DEFINE s == socket
    <3>1. s \in 1 .. Len(sockets) /\ sockets' = Restated(sockets, s, "closing")
          /\ sockets[s].state = "open"
      BY <2>1, <2>2 DEF Close, Restated
    <3> HIDE DEF s
    <3>2. /\ Len(Restated(sockets, s, "closing")) = Len(sockets)
          /\ \A r \in 1 .. Len(sockets) :
               /\ Restated(sockets, s, "closing")[r].state =
                    IF r = s THEN "closing" ELSE sockets[r].state
               /\ Restated(sockets, s, "closing")[r].listening = sockets[r].listening
               /\ Restated(sockets, s, "closing")[r].in = sockets[r].in
               /\ Restated(sockets, s, "closing")[r].out = sockets[r].out
      BY <2>1, <3>1, RestatedShape
    <3> DEFINE all == Restated(sockets, s, "closing")
    <3>3. sockets' = all /\ Len(all) = Len(sockets)
          /\ \A r \in 1 .. Len(sockets) :
               /\ all[r].state = IF r = s THEN "closing" ELSE sockets[r].state
               /\ all[r].listening = sockets[r].listening
               /\ all[r].in = sockets[r].in /\ all[r].out = sockets[r].out
      BY <3>1, <3>2
    <3> HIDE DEF all
    <3>4. QED
      BY <3>1, <3>3
  <2>3. CASE ~ (socket # 0 /\ sockets[socket].state = "open")
    <3>1. sockets' = sockets
      BY <2>3 DEF Close
    <3>2. QED
      BY <3>1
  <2>4. QED
    BY <2>2, <2>3
<1>5. Connections'
  BY <1>2, <1>4 DEF Connections
<1>6. Carried'
  <2>1. ASSUME NEW r \in 1 .. Len(sockets)
        PROVE  /\ sockets'[r].state = "connecting" => ~ sockets'[r].listening
                    /\ sockets'[r].out = << >>
               /\ sockets'[r].state \in {"connecting", "closed"} => sockets'[r].in = << >>
    BY <1>4 DEF Carried
  <2>2. \A t \in 1 .. Len(served) : served[t].conn \in 1 .. Len(sockets)
          /\ sockets'[served[t].conn].state # "connecting"
    BY <1>4 DEF Carried
  <2>3. QED
    BY <1>1, <1>4, <2>1, <2>2 DEF Carried
<1>7. Sequenced'
  BY <1>1, <1>4 DEF Sequenced
<1>8. QED
  BY <1>3, <1>5, <1>6, <1>7 DEF Listed, Awaited

-----------------------------------------------------------------------------
(* What the client reads.                                                   *)

LEMMA ReadSteady ==
  ASSUME AnswersInv, NEW s \in 1 .. Len(sockets), sockets[s].in # << >>,
         sockets' = Read(sockets, s)
  PROVE  Steady(s)
<1>1. sockets \in Seq(Sockets) /\ AllGood(sockets, nextId, pending, calls, served, setup.line)
  BY DEF AnswersInv, Types, Messages
<1>2. /\ Len(sockets') = Len(sockets)
      /\ \A r \in 1 .. Len(sockets) :
           /\ sockets'[r].state = sockets[r].state
           /\ sockets'[r].listening = sockets[r].listening
           /\ sockets'[r].in = IF r = s THEN Tail(sockets[s].in) ELSE sockets[r].in
           /\ sockets'[r].out = sockets[r].out
  BY <1>1, ReadGood
<1>3. QED
  BY <1>2 DEF Steady

(* A call that goes on while a message that completes nothing is read.      *)
LEMMA OtherRead ==
  ASSUME AnswersInv, AnswersInv', CompletionsInv, NEW s \in 1 .. Len(sockets),
         sockets[s].in # << >>, Steady(s), Remaining,
         \A n \in Nat : Head(sockets[s].in) # Completed(n),
         UNCHANGED << setup, served, turns >>
  PROVE  CompletionsInv'
<1>1. s \in 0 .. Len(sockets)
  BY DEF AnswersInv, Types
<1>2. Connections' /\ Carried' /\ Sequenced'
  BY <1>1, ReadOn DEF AnswersInv, Remaining
<1>3. \A c \in Callers : calls[c].turn \in Nat
  BY DEF AnswersInv, Types, Calls
<1>4. Awaited'
  BY <1>1, <1>3, AwaitedOn
<1>5. Listed'
  BY ListedOn DEF CompletionsInv
<1>6. QED
  BY <1>2, <1>4, <1>5 DEF CompletionsInv

(* What Completed says.                                                     *)
LEMMA CompletedFields ==
  ASSUME NEW n \in Nat
  PROVE  Completed(n).kind = "completed" /\ Completed(n).id = 0 /\ Completed(n).ref = n
BY DEF Completed, Message

LEMMA HandleAnswerCompletions ==
  ASSUME AnswersInv, AnswersInv', CompletionsInv, NEW s \in 1 .. Len(sockets),
         sockets[s].in # << >>, setup.batched \/ Quiet, sockets[s].listening,
         NEW p \in pending, p.id = Head(sockets[s].in).id,
         HandleAnswer(s, Head(sockets[s].in), p),
         UNCHANGED << turns, setup, served >>
  PROVE  CompletionsInv'
<1> DEFINE m == Head(sockets[s].in)
           c == p.caller
           read == Read(sockets, s)
           rest == pending \ {p}
<1>1. c \in Callers /\ p.id \in Nat \ {0}
  BY DEF AnswersInv, Types
<1>2. m \in Incoming /\ GoodIn(m, nextId, pending, calls, served, setup.line)
      /\ read \in Seq(Sockets) /\ Len(read) = Len(sockets)
      /\ AllGood(read, nextId, pending, calls, served, setup.line)
  BY HeadGood DEF AnswersInv
<1>3. \A n \in Nat : m # Completed(n)
  BY <1>1, CompletedFields
<1>4. CASE /\ Waits(c, p) /\ calls[c].pc = "handshake" /\ m.kind # "error"
           /\ SendRequest(c, "start",
                          Sent(read, calls[c].conn, Message("initialized", 0, c)), rest)
  <2> DEFINE i == Message("initialized", 0, c)
             k == calls[c].conn
             all == Sent(read, k, i)
  <2>1. k \in 1 .. Len(sockets)
    BY <1>1, <1>4 DEF CompletionsInv, Connections
  <2>2. i \in Outgoing /\ i.kind = "initialized"
    BY <1>1 DEF Message, Outgoing
  <2>3. SendRequest(c, "start", all, rest) /\ rest \in SUBSET pending
    BY <1>4
  <2>4. sockets \in Seq(Sockets)
        /\ AllGood(sockets, nextId, pending, calls, served, setup.line)
        /\ Types /\ Numbers
    BY DEF AnswersInv, Types, Messages
  <2>5. \A r \in 1 .. Len(sockets) :
          /\ read[r].state = sockets[r].state
          /\ read[r].listening = sockets[r].listening
          /\ read[r].in = IF r = s THEN Tail(sockets[s].in) ELSE sockets[r].in
          /\ read[r].out = sockets[r].out
    BY <2>4, ReadGood
  <2> HIDE DEF i, k, read, rest
  <2>6. GoodOut(i, nextId, pending, calls)
    BY <2>2 DEF GoodOut
  <2>7. all \in Seq(Sockets) /\ Len(all) = Len(sockets)
        /\ AllGood(all, nextId, pending, calls, served, setup.line)
        /\ \A r \in 1 .. Len(sockets) :
             /\ all[r].state = read[r].state
             /\ all[r].listening = read[r].listening
             /\ all[r].in = read[r].in
             /\ read[r].state = "connecting" => all[r].out = read[r].out
    BY <1>2, <2>1, <2>2, <2>6, SentGood
  <2> HIDE DEF all
  <2>8. /\ \A d \in Callers \ {c} : calls'[d] = calls[d]
        /\ calls'[c].pc \in {"failed", "handshake", "starting"}
        /\ calls'[c].conn = calls[c].conn /\ calls'[c].pc # "handshake"
    BY <1>1, <2>3, <2>4, <2>7, RequestEntered
  <2>9. Len(sockets') = Len(all)
        /\ \A r \in 1 .. Len(all) :
             /\ sockets'[r].state = all[r].state
             /\ sockets'[r].listening = all[r].listening
             /\ sockets'[r].in = all[r].in
             /\ all[r].state = "connecting" => sockets'[r].out = all[r].out
    BY <1>1, <2>3, <2>4, <2>7, RequestSent
  <2>10. Steady(s)
    BY <2>5, <2>7, <2>9 DEF Steady
  <2>11. Remaining
    BY <2>8 DEF Remaining
  <2>12. QED
    BY <1>3, <2>10, <2>11, OtherRead
<1>5. CASE /\ ~ (Waits(c, p) /\ calls[c].pc = "handshake" /\ m.kind # "error")
           /\ calls' = IF ~ Waits(c, p) THEN calls
                       ELSE [calls EXCEPT ![c].turn = Result(m), ![c].pc = Continued(m)]
           /\ sockets' = read
  <2>1. Steady(s)
    BY <1>5, ReadSteady
  <2>2. CASE ~ Waits(c, p)
    <3>1. Remaining
      BY <1>5, <2>2 DEF Remaining
    <3>2. QED
      BY <1>3, <2>1, <3>1, OtherRead
  <2>3. CASE Waits(c, p)
    <3> DEFINE pc == Continued(m)
               ref == Result(m)
    <3>1. calls' = [calls EXCEPT ![c].turn = ref, ![c].pc = pc]
      BY <1>5, <2>3
    <3>2. pc \in {"failed", "done", "answered"}
      BY DEF Continued
    <3>3. pc = "answered" => m.kind = "answer" /\ ~ setup.line /\ ref = m.ref
      BY DEF Continued, Result
    <3> HIDE DEF pc, ref
    <3>4. calls'[c].pc = pc /\ calls'[c].turn = ref /\ calls'[c].conn = calls[c].conn
          /\ \A d \in Callers : d # c => calls'[d] = calls[d]
      BY <1>1, <3>1 DEF AnswersInv, Types, Calls
    <3>5. CASE pc # "answered"
      <4>1. Remaining
        BY <3>2, <3>4, <3>5 DEF Remaining
      <4>2. QED
        BY <1>3, <2>1, <4>1, OtherRead
    <3>6. CASE pc = "answered"
      <4>1. s \in 0 .. Len(sockets)
        BY DEF AnswersInv, Types
      <4>2. Connections' /\ Carried' /\ Sequenced'
        BY <2>1, <3>4, <3>6, <4>1, ReadOn DEF AnswersInv
      <4>3. Listed'
        BY <3>3, <3>4, <3>6 DEF CompletionsInv, Listed
      <4>4. ref \in 1 .. Len(served) /\ ref # 0
        BY <1>1, <3>4, <3>6 DEF AnswersInv, Turns, OwnTurn, Types
      <4>5. ASSUME ~ setup.batched
            PROVE  Coming(ref, sockets', served)
        <5> DEFINE q == sockets[s].in
        <5>1. sockets[s] \in Sockets
          BY DEF AnswersInv, Types
        <5>2. q \in Seq(Incoming) /\ q # << >> /\ q[1] = m /\ Len(q) \in Nat \ {0}
          BY <5>1, TailElems DEF Sockets
        <5>3. InSequence(q, s, served)
          BY <3>3, <3>6 DEF CompletionsInv, Sequenced
        <5> HIDE DEF q
        <5>4. served[ref].conn = s
              /\ (served[ref].state = "completed" => \E j \in 2 .. Len(q) : q[j] = Completed(ref))
          BY <3>3, <3>6, <4>4, <5>2, <5>3 DEF InSequence
        <5>5. served[ref].state = "completed" => Contains(Tail(q), Completed(ref))
          <6>1. SUFFICES ASSUME served[ref].state = "completed"
                         PROVE  Contains(Tail(q), Completed(ref))
            OBVIOUS
          <6>2. PICK j \in 2 .. Len(q) : q[j] = Completed(ref)
            BY <5>4, <6>1
          <6>3. Len(Tail(q)) = Len(q) - 1 /\ \A i \in 1 .. Len(q) - 1 : Tail(q)[i] = q[i + 1]
            BY <5>2, TailElems
          <6>4. j - 1 \in 1 .. Len(Tail(q)) /\ Tail(q)[j - 1] = Completed(ref)
            BY <5>2, <6>2, <6>3
          <6>5. QED
            BY <6>4 DEF Contains
        <5>6. sockets[s].state \in {"open", "closing"}
          BY <5>1, <5>2 DEF CompletionsInv, Carried, Sockets, q
        <5>7. sockets'[s].in = Tail(q) /\ sockets'[s].state = sockets[s].state
              /\ sockets'[s].listening = sockets[s].listening
          BY <2>1 DEF Steady, q
        <5>8. QED
          BY <5>4, <5>5, <5>6, <5>7 DEF Coming
      <4>6. Awaited'
        <5>1. SUFFICES ASSUME ~ setup.batched, NEW d \in Callers,
                              calls'[d].pc \in {"answered", "turn"}
                       PROVE  Coming(calls'[d].turn, sockets', served')
          BY DEF Awaited
        <5>2. CASE d = c
          BY <3>4, <4>5, <5>1, <5>2
        <5>3. CASE d # c
          <6>1. calls'[d] = calls[d] /\ calls[d].turn \in Nat
            BY <3>4, <5>3 DEF AnswersInv, Types, Calls
          <6>2. s # 0 => Head(sockets[s].in) # Completed(calls[d].turn)
            BY <1>3, <6>1
          <6>3. QED
            BY <2>1, <4>1, <5>1, <6>1, <6>2, ComingOn
        <5>4. QED
          BY <5>2, <5>3
      <4>7. QED
        BY <4>2, <4>3, <4>6 DEF CompletionsInv
    <3>7. QED
      BY <3>5, <3>6
  <2>4. QED
    BY <2>2, <2>3
<1>6. QED
  BY <1>4, <1>5 DEF HandleAnswer, Read

LEMMA HandleCompletedCompletions ==
  ASSUME AnswersInv, AnswersInv', CompletionsInv, NEW s \in 1 .. Len(sockets),
         sockets[s].in # << >>, setup.batched \/ Quiet,
         HandleCompleted(s, Head(sockets[s].in)),
         UNCHANGED << setup, served >>
  PROVE  CompletionsInv'
<1> DEFINE m == Head(sockets[s].in)
           E == {c \in Callers : [turn |-> m.ref, caller |-> c] \in turns}
<1>1. /\ sockets' = Read(sockets, s) /\ turns' = {t \in turns : t.turn # m.ref}
      /\ \E end \in {"done", "failed"} :
           calls' = [c \in Callers |-> IF [turn |-> m.ref, caller |-> c] \in turns
                                      THEN [calls[c] EXCEPT !.pc = end] ELSE calls[c]]
  BY DEF HandleCompleted, Read
<1>2. \A c \in Callers : c \in E <=> [turn |-> m.ref, caller |-> c] \in turns
  OBVIOUS
<1>10. PICK end \in {"done", "failed"} :
         calls' = [c \in Callers |-> IF c \in E THEN [calls[c] EXCEPT !.pc = end]
                                    ELSE calls[c]]
  BY <1>1
<1>3. Steady(s) /\ s \in 0 .. Len(sockets)
  BY <1>1, ReadSteady DEF AnswersInv, Types
<1> HIDE DEF E
<1>4. \A c \in Callers : /\ calls'[c].conn = calls[c].conn
                         /\ c \in E => calls'[c].pc = end
                         /\ c \notin E => calls'[c] = calls[c]
  <2>1. calls \in [Callers -> Calls]
    BY DEF AnswersInv, Types
  <2>2. QED
    BY ONLY <1>10, <2>1 DEF Calls, Phases, Waiting
<1>5. Remaining
  BY <1>4 DEF Remaining
<1>6. Connections' /\ Carried' /\ Sequenced'
  BY <1>3, <1>5, ReadOn DEF AnswersInv, Remaining
<1>7. Listed'
  <2>1. ASSUME NEW t \in turns
        PROVE  t \in turns' \/ calls'[t.caller].pc # "turn"
    <3>1. SUFFICES ASSUME t.turn = m.ref
                   PROVE  calls'[t.caller].pc # "turn"
      BY <1>1
    <3>2. t.caller \in Callers /\ t = [turn |-> m.ref, caller |-> t.caller]
      BY <3>1 DEF AnswersInv, Types
    <3>3. t.caller \in E
      BY <1>2, <3>2
    <3>4. QED
      BY <1>4, <3>2, <3>3
  <2>2. QED
    BY <1>5, <2>1, ListedOn DEF CompletionsInv
<1>8. Awaited'
  <2>1. ASSUME ~ setup.batched, NEW c \in Callers, calls'[c].pc \in {"answered", "turn"}
        PROVE  m # Completed(calls[c].turn)
    <3>1. c \notin E /\ calls'[c] = calls[c] /\ calls[c].turn \in Nat
      BY <1>4, <2>1 DEF AnswersInv, Types, Calls
    <3>2. calls[c].pc = "turn"
      BY <2>1, <3>1 DEF Quiet
    <3>3. [turn |-> calls[c].turn, caller |-> c] \in turns
      BY <3>2 DEF CompletionsInv, Listed
    <3>4. calls[c].turn # m.ref
      BY <1>2, <3>1, <3>3
    <3>5. QED
      BY <3>1, <3>4, CompletedFields
  <2>2. QED
    BY <1>3, <1>5, <2>1, AwaitedOn
<1>9. QED
  BY <1>6, <1>7, <1>8 DEF CompletionsInv

LEMMA HandleMessageCompletions ==
  ASSUME AnswersInv, AnswersInv', CompletionsInv, NEW s \in 1 .. Len(sockets),
         HandleMessage(s)
  PROVE  CompletionsInv'
<1> DEFINE m == Head(sockets[s].in)
<1>1. UNCHANGED << setup, served >> /\ sockets[s].in # << >> /\ (setup.batched \/ Quiet)
      /\ sockets[s].listening
  BY DEF HandleMessage
<1>2. CASE \E p \in pending : p.id = m.id /\ HandleAnswer(s, m, p) /\ UNCHANGED turns
  BY <1>1, <1>2, HandleAnswerCompletions
<1>3. CASE HandleCompleted(s, m)
  BY <1>1, <1>3, HandleCompletedCompletions
<1>4. CASE sockets' = Read(sockets, s) /\ UNCHANGED << calls, turns >>
           /\ m.kind \in {"ask", "answer", "error"}
  <2>1. Steady(s)
    BY <1>1, <1>4, ReadSteady
  <2>2. Remaining
    BY <1>4 DEF Remaining
  <2>3. \A n \in Nat : m # Completed(n)
    BY <1>4, CompletedFields
  <2>4. QED
    BY <1>1, <1>4, <2>1, <2>2, <2>3, OtherRead
<1>5. QED
  BY <1>2, <1>3, <1>4 DEF HandleMessage, HandleAsk, Read

-----------------------------------------------------------------------------
(* What the server does.                                                    *)

(* The answers in q are about turns of the server; a turn of socket s is    *)
(* newly completed only if m says so; and m is an answer only about a turn  *)
(* that goes on at s.                                                       *)
AboutTurns(q, last) ==
  \A i \in 1 .. Len(q) : q[i].kind = "answer" /\ q[i].ref # 0 => q[i].ref \in 1 .. last

SaidBy(q, q2, m, s, sv, sv2) ==
  \A u \in 1 .. Len(sv) :
    /\ sv2[u].conn = sv[u].conn
    /\ sv2[u].state = "completed" /\ sv[u].conn = s =>
         sv[u].state = "completed" \/ (q2 = Append(q, m) /\ m = Completed(u))

GoesOn(m, s, sv2) ==
  m.kind = "answer" /\ m.ref # 0 => sv2[m.ref].conn = s /\ sv2[m.ref].state # "completed"

LEMMA InSequenceOn ==
  ASSUME NEW q \in Seq(Incoming), NEW s, NEW sv, NEW sv2, InSequence(q, s, sv),
         AboutTurns(q, Len(sv)), NEW m \in Incoming, NEW q2 \in {q, Append(q, m)},
         SaidBy(q, q2, m, s, sv, sv2), GoesOn(m, s, sv2)
  PROVE  InSequence(q2, s, sv2)
<1>1. /\ Len(q) \in Nat /\ Len(Append(q, m)) = Len(q) + 1
      /\ \A i \in 1 .. Len(q) : Append(q, m)[i] = q[i]
      /\ Append(q, m)[Len(q) + 1] = m
  BY AppendElems
<1> DEFINE p == Append(q, m)
<1> HIDE DEF p
<1>2. /\ Len(q) \in Nat /\ Len(p) = Len(q) + 1 /\ p[Len(q) + 1] = m
      /\ \A i \in 1 .. Len(q) : p[i] = q[i]
  BY <1>1 DEF p
<1>3. ASSUME NEW i \in 1 .. Len(q), q[i].kind = "answer", q[i].ref # 0
      PROVE  /\ sv2[q[i].ref].conn = s
             /\ sv2[q[i].ref].state = "completed" =>
                  \/ \E j \in i + 1 .. Len(q) : q[j] = Completed(q[i].ref)
                  \/ q2 = p /\ m = Completed(q[i].ref)
  BY <1>3 DEF InSequence, p, AboutTurns, SaidBy
<1>4. CASE q2 = q /\ q2 # p
  <2>1. InSequence(q, s, sv2)
    BY <1>3, <1>4 DEF InSequence
  <2>2. QED
    BY <1>4, <2>1
<1>5. CASE q2 = p
  <2>1. ASSUME NEW i \in 1 .. Len(p), p[i].kind = "answer", p[i].ref # 0
        PROVE  /\ sv2[p[i].ref].conn = s
               /\ sv2[p[i].ref].state = "completed" =>
                    \E j \in i + 1 .. Len(p) : p[j] = Completed(p[i].ref)
    <3>1. CASE i \in 1 .. Len(q)
      <4>1. p[i] = q[i]
        BY <1>2, <3>1
      <4>2. ASSUME NEW j \in i + 1 .. Len(q), q[j] = Completed(q[i].ref)
            PROVE  j \in i + 1 .. Len(p) /\ p[j] = Completed(p[i].ref)
        BY <1>2, <3>1, <4>1, <4>2
      <4>3. ASSUME m = Completed(q[i].ref)
            PROVE  Len(p) \in i + 1 .. Len(p) /\ p[Len(p)] = Completed(p[i].ref)
        BY <1>2, <3>1, <4>1, <4>3
      <4>4. QED
        BY <1>3, <2>1, <3>1, <4>1, <4>2, <4>3
    <3>2. CASE i = Len(q) + 1
      BY <1>2, <2>1, <3>2 DEF GoesOn
    <3>3. QED
      BY <1>2, <3>1, <3>2
  <2>2. InSequence(p, s, sv2)
    BY <2>1 DEF InSequence
  <2>3. QED
    BY <1>5, <2>2
<1>6. QED
  BY <1>4, <1>5 DEF p

LEMMA ContainsAppended ==
  ASSUME NEW q \in Seq(Incoming), NEW m \in Incoming
  PROVE  Contains(Append(q, m), m)
<1>1. Len(q) + 1 \in 1 .. Len(Append(q, m)) /\ Append(q, m)[Len(q) + 1] = m
  BY AppendElems
<1>2. QED
  BY <1>1 DEF Contains

LEMMA ContainsStill ==
  ASSUME NEW q \in Seq(Incoming), NEW m \in Incoming, NEW n, Contains(q, n)
  PROVE  Contains(Append(q, m), n)
<1>1. PICK i \in 1 .. Len(q) : q[i] = n
  BY DEF Contains
<1>2. i \in 1 .. Len(Append(q, m)) /\ Append(q, m)[i] = n
  BY <1>1, AppendElems
<1>3. QED
  BY <1>2 DEF Contains

(* A step of the server says m to the client, of a turn that goes on; and   *)
(* it completes a turn only with that.                                      *)
Says(m) ==
  /\ Len(sockets') = Len(sockets)
  /\ \A r \in 1 .. Len(sockets) :
       /\ sockets'[r].state = sockets[r].state
       /\ sockets'[r].listening = sockets[r].listening
       /\ sockets[r].state = "connecting" => sockets'[r] = sockets[r]
       /\ sockets'[r].in \in {sockets[r].in, Append(sockets[r].in, m)}
       /\ sockets[r].state = "closed" => sockets'[r].in = sockets[r].in
       /\ sockets'[r].in # sockets[r].in /\ ~ setup.line => GoesOn(m, r, served')

Completes(m) ==
  /\ Len(served') >= Len(served)
  /\ \A t \in 1 .. Len(served) :
       /\ served'[t].conn = served[t].conn
       /\ ~ setup.line /\ served'[t].state = "completed" =>
            \/ served[t].state = "completed"
            \/ sockets[served[t].conn].state = "closed"
            \/ /\ sockets'[served[t].conn].in = Append(sockets[served[t].conn].in, m)
               /\ m = Completed(t)
  /\ \A t \in 1 .. Len(served') : served'[t].conn \in 1 .. Len(sockets)
       /\ sockets[served'[t].conn].state # "connecting"

LEMMA ServerCompletions ==
  ASSUME AnswersInv, AnswersInv', CompletionsInv, UNCHANGED << setup, calls, client >>,
         NEW m \in Incoming, Says(m), Completes(m)
  PROVE  CompletionsInv'
<1> USE DEF CompletionsInv
<1>1. UNCHANGED << setup, calls, turns >>
  BY DEF client
<1>2. \A r \in 1 .. Len(sockets) : sockets[r].in \in Seq(Incoming)
  <2>1. \A r \in 1 .. Len(sockets) : sockets[r] \in Sockets
    BY DEF AnswersInv, Types
  <2>2. QED
    BY <2>1 DEF Sockets
<1>3. Connections'
  BY <1>1 DEF Connections, Says
<1>4. Carried'
  <2>1. ASSUME NEW r \in 1 .. Len(sockets)
        PROVE  /\ sockets'[r].state = "connecting" => ~ sockets'[r].listening
                    /\ sockets'[r].out = << >>
               /\ sockets'[r].state \in {"connecting", "closed"} => sockets'[r].in = << >>
    BY DEF Carried, Says
  <2>2. QED
    BY <2>1 DEF Carried, Says, Completes
<1>5. Listed'
  BY <1>1 DEF Listed
<1>6. Sequenced'
  <2>1. SUFFICES ASSUME ~ setup.line, NEW r \in 1 .. Len(sockets)
                 PROVE  InSequence(sockets'[r].in, r, served')
    BY <1>1 DEF Sequenced, Says
  <2> DEFINE q == sockets[r].in
             q2 == sockets'[r].in
  <2>2. q \in Seq(Incoming) /\ InSequence(q, r, served) /\ q2 \in {q, Append(q, m)}
    BY <1>2, <2>1 DEF Sequenced, Says
  <2>3. AboutTurns(q, Len(served))
    BY DEF AnswersInv, Messages, AllGood, GoodIns, GoodIn, AboutTurns
  <2>4. CASE q2 # q
    <3>1. SaidBy(q, q2, m, r, served, served')
      BY <2>1, <2>4 DEF SaidBy, Says, Completes
    <3>2. GoesOn(m, r, served')
      BY <2>1, <2>4 DEF Says
    <3> HIDE DEF q, q2
    <3>3. InSequence(q2, r, served')
      BY <2>2, <2>3, <3>1, <3>2, InSequenceOn
    <3>4. QED
      BY <3>3 DEF q2
  <2>5. CASE q2 = q /\ sockets[r].state = "closed"
    <3>1. q2 = << >>
      BY <2>5 DEF Carried
    <3>2. QED
      BY <3>1 DEF InSequence
  <2>6. CASE q2 = q /\ sockets[r].state # "closed"
    <3> DEFINE n == [kind |-> "ask", id |-> 0, ref |-> 0]
    <3>1. n \in Incoming /\ n.kind = "ask"
      BY DEF Incoming
    <3>2. Append(q, m) # q
      BY <2>2, AppendElems
    <3>3. SaidBy(q, q2, n, r, served, served') /\ GoesOn(n, r, served')
      BY <2>1, <2>6, <3>1, <3>2 DEF SaidBy, GoesOn, Completes
    <3> HIDE DEF q, q2, n
    <3>4. q2 \in {q, Append(q, n)}
      BY <2>6
    <3>5. InSequence(q2, r, served')
      BY <2>2, <2>3, <3>1, <3>3, <3>4, InSequenceOn
    <3>6. QED
      BY <3>5 DEF q2
  <2>7. QED
    BY <2>4, <2>5, <2>6
<1>7. Awaited'
  <2>1. SUFFICES ASSUME ~ setup.batched, NEW c \in Callers,
                        calls[c].pc \in {"answered", "turn"}
                 PROVE  Coming(calls[c].turn, sockets', served')
    BY <1>1 DEF Awaited
  <2> DEFINE t == calls[c].turn
             r == served[t].conn
  <2>2. t \in 1 .. Len(served) /\ r \in 1 .. Len(sockets)
    BY <2>1, WaitingTurns
  <2>3. Coming(t, sockets, served) /\ ~ setup.line
    BY <2>1 DEF Awaited, Listed
  <2>4. served'[t].conn = r /\ sockets[r].in \in Seq(Incoming)
        /\ sockets'[r].in \in {sockets[r].in, Append(sockets[r].in, m)}
        /\ sockets[r].state \in {"open", "closing"} /\ sockets[r].listening
    BY <1>2, <2>2, <2>3 DEF Coming, Says, Completes
  <2>5. ASSUME served'[t].state = "completed"
        PROVE  Contains(sockets'[r].in, Completed(t))
    <3>1. CASE served[t].state = "completed"
      <4>1. Contains(sockets[r].in, Completed(t))
        BY <2>3, <3>1 DEF Coming
      <4>2. Contains(Append(sockets[r].in, m), Completed(t))
        BY <2>4, <4>1, ContainsStill
      <4>3. QED
        BY <2>4, <4>1, <4>2
    <3>2. CASE sockets'[r].in = Append(sockets[r].in, m) /\ m = Completed(t)
      <4>1. Contains(Append(sockets[r].in, m), m)
        BY <2>4, ContainsAppended
      <4>2. QED
        BY <3>2, <4>1
    <3>3. QED
      BY <2>2, <2>3, <2>4, <2>5, <3>1, <3>2 DEF Completes
  <2>6. sockets'[r].state = sockets[r].state /\ sockets'[r].listening = sockets[r].listening
    BY <2>2 DEF Says
  <2> HIDE DEF t, r
  <2>7. Coming(t, sockets', served')
    BY <2>4, <2>5, <2>6 DEF Coming
  <2>8. QED
    BY <2>7 DEF t
<1>8. QED
  BY <1>3, <1>4, <1>5, <1>6, <1>7

(* The server says m to the client of socket s, if that is not closed.      *)
LEMMA Told ==
  ASSUME AnswersInv, NEW s \in 1 .. Len(sockets), NEW m, sockets' = ToClient(s, m)
  PROVE  /\ Len(sockets') = Len(sockets)
         /\ \A r \in 1 .. Len(sockets) :
              /\ sockets'[r].state = sockets[r].state
              /\ sockets'[r].listening = sockets[r].listening
              /\ sockets'[r].in = IF r = s /\ sockets[s].state # "closed"
                                  THEN Append(sockets[r].in, m) ELSE sockets[r].in
              /\ r # s => sockets'[r] = sockets[r]
<1>1. sockets \in Seq(Sockets) /\ sockets[s] \in Sockets
  BY DEF AnswersInv, Types
<1>2. CASE sockets[s].state = "closed"
  <2>1. sockets' = sockets
    BY <1>2 DEF ToClient
  <2>2. QED
    BY <1>2, <2>1
<1>3. CASE sockets[s].state # "closed"
  <2> DEFINE k == [sockets[s] EXCEPT !.in = Append(@, m)]
  <2>1. k.state = sockets[s].state /\ k.listening = sockets[s].listening
        /\ k.in = Append(sockets[s].in, m)
    BY <1>1 DEF Sockets
  <2>2. sockets' = [sockets EXCEPT ![s] = k]
    BY <1>3 DEF ToClient
  <2> HIDE DEF k
  <2>3. Len(sockets') = Len(sockets)
        /\ \A r \in 1 .. Len(sockets) : sockets'[r] = IF r = s THEN k ELSE sockets[r]
    BY <1>1, <2>2
  <2>4. QED
    BY <1>3, <2>1, <2>3
<1>4. QED
  BY <1>2, <1>3

LEMMA ServerAsksCompletions ==
  ASSUME AnswersInv, AnswersInv', CompletionsInv, NEW t \in 1 .. Len(served), ServerAsks(t)
  PROVE  CompletionsInv'
<1> DEFINE k == [served[t] EXCEPT !.state = "asking", !.ask = AskId]
           m == Message("ask", AskId, t)
           s == served[t].conn
<1>1. UNCHANGED << setup, calls, client >> /\ sockets' = ToClient(s, m)
      /\ served[t].state = "running" /\ served' = [served EXCEPT ![t] = k]
  BY DEF ServerAsks
<1>2. served[t] \in ServedTurns /\ asks \in Nat
  BY DEF AnswersInv, Types
<1>3. AskId \in Nat
  BY <1>2 DEF AskId
<1>4. k \in ServedTurns /\ k.caller = served[t].caller /\ k.conn = served[t].conn
      /\ k.state = "asking"
  BY <1>2, <1>3 DEF ServedTurns
<1>5. m \in Incoming /\ m.kind = "ask"
  BY <1>3 DEF Message, Incoming
<1>6. s \in 1 .. Len(sockets) /\ sockets[s].state # "connecting"
  BY DEF CompletionsInv, Carried
<1> HIDE DEF k, m, s
<1>7. /\ Len(served') = Len(served)
      /\ \A u \in 1 .. Len(served) :
           /\ served'[u] = IF u = t THEN k ELSE served[u]
           /\ served'[u].conn = served[u].conn
  BY <1>1, <1>4, TurnChanged
<1>8. /\ Len(sockets') = Len(sockets)
      /\ \A r \in 1 .. Len(sockets) :
           /\ sockets'[r].state = sockets[r].state
           /\ sockets'[r].listening = sockets[r].listening
           /\ sockets'[r].in = IF r = s /\ sockets[s].state # "closed"
                               THEN Append(sockets[r].in, m) ELSE sockets[r].in
           /\ r # s => sockets'[r] = sockets[r]
  BY <1>1, <1>6, Told
<1>9. \A u \in 1 .. Len(served) : served[u].conn \in 1 .. Len(sockets)
        /\ sockets[served[u].conn].state # "connecting"
  BY DEF CompletionsInv, Carried
<1>10. \A u \in 1 .. Len(served) :
         served'[u].state = "completed" => served[u].state = "completed"
  BY <1>4, <1>7
<1>11. Says(m)
  BY <1>5, <1>6, <1>8 DEF Says, GoesOn
<1>12. Completes(m)
  BY <1>7, <1>9, <1>10 DEF Completes
<1>13. QED
  BY <1>1, <1>5, <1>11, <1>12, ServerCompletions

LEMMA ServerCompletesCompletions ==
  ASSUME AnswersInv, AnswersInv', CompletionsInv, NEW t \in 1 .. Len(served),
         ServerCompletes(t)
  PROVE  CompletionsInv'
<1> DEFINE k == [served[t] EXCEPT !.state = "completed"]
           m == IF setup.line THEN Message("answer", served[t].id, t)
                ELSE Message("completed", 0, t)
           s == served[t].conn
<1>1. UNCHANGED << setup, calls, client >> /\ sockets' = ToClient(s, m)
      /\ served[t].state = "running" /\ served' = [served EXCEPT ![t] = k]
  BY DEF ServerCompletes
<1>2. served[t] \in ServedTurns
  BY DEF AnswersInv, Types
<1>3. k \in ServedTurns /\ k.caller = served[t].caller /\ k.conn = served[t].conn
      /\ served[t].id \in Nat
  BY <1>2 DEF ServedTurns
<1>4. m \in Incoming /\ (~ setup.line => m = Completed(t) /\ m.kind = "completed")
  BY <1>3 DEF Message, Incoming, Completed
<1>5. s \in 1 .. Len(sockets) /\ sockets[s].state # "connecting"
  BY DEF CompletionsInv, Carried
<1>6. served[t].conn = s
  OBVIOUS
<1> HIDE DEF k, m, s
<1>7. /\ Len(served') = Len(served)
      /\ \A u \in 1 .. Len(served) :
           /\ served'[u] = IF u = t THEN k ELSE served[u]
           /\ served'[u].conn = served[u].conn
  BY <1>1, <1>3, TurnChanged
<1>8. /\ Len(sockets') = Len(sockets)
      /\ \A r \in 1 .. Len(sockets) :
           /\ sockets'[r].state = sockets[r].state
           /\ sockets'[r].listening = sockets[r].listening
           /\ sockets'[r].in = IF r = s /\ sockets[s].state # "closed"
                               THEN Append(sockets[r].in, m) ELSE sockets[r].in
           /\ r # s => sockets'[r] = sockets[r]
  BY <1>1, <1>5, Told
<1>9. \A u \in 1 .. Len(served) : served[u].conn \in 1 .. Len(sockets)
        /\ sockets[served[u].conn].state # "connecting"
  BY DEF CompletionsInv, Carried
<1>10. \A u \in 1 .. Len(served) :
         ~ setup.line /\ served'[u].state = "completed" =>
           \/ served[u].state = "completed"
           \/ sockets[served[u].conn].state = "closed"
           \/ /\ sockets'[served[u].conn].in = Append(sockets[served[u].conn].in, m)
              /\ m = Completed(u)
  BY <1>4, <1>5, <1>6, <1>7, <1>8
<1>11. Says(m)
  BY <1>4, <1>5, <1>8 DEF Says, GoesOn
<1>12. Completes(m)
  BY <1>7, <1>9, <1>10 DEF Completes
<1>13. QED
  BY <1>1, <1>4, <1>11, <1>12, ServerCompletions

(* The server takes one message of socket s and may answer it with m.       *)
LEMMA ExchangeSays ==
  ASSUME AnswersInv, Carried, NEW s \in 1 .. Len(sockets), sockets[s].state # "closed",
         sockets[s].out # << >>, NEW m \in Incoming, NEW shaken, NEW in,
         in \in {sockets[s].in, Append(sockets[s].in, m)}, Exchange(s, shaken, in),
         ~ setup.line /\ in # sockets[s].in => GoesOn(m, s, served')
  PROVE  Says(m)
<1> DEFINE k == [sockets[s] EXCEPT !.out = Tail(sockets[s].out), !.shaken = shaken,
                                   !.in = in]
<1>1. sockets \in Seq(Sockets) /\ sockets[s] \in Sockets
  BY DEF AnswersInv, Types
<1>2. k.state = sockets[s].state /\ k.listening = sockets[s].listening /\ k.in = in
  BY <1>1 DEF Sockets
<1>3. sockets' = [sockets EXCEPT ![s] = k]
  BY DEF Exchange
<1> HIDE DEF k
<1>4. Len(sockets') = Len(sockets)
      /\ \A r \in 1 .. Len(sockets) : sockets'[r] = IF r = s THEN k ELSE sockets[r]
  BY <1>1, <1>3
<1>5. sockets[s].state # "connecting"
  BY DEF Carried
<1>6. QED
  BY <1>2, <1>4, <1>5 DEF Says

LEMMA ServerReadsCompletions ==
  ASSUME AnswersInv, AnswersInv', CompletionsInv, NEW s \in 1 .. Len(sockets),
         ServerReads(s)
  PROVE  CompletionsInv'
<1> DEFINE m == Head(sockets[s].out)
           in == sockets[s].in
<1>1. UNCHANGED << setup, calls, client >> /\ sockets[s].out # << >>
      /\ sockets[s].state # "closed" /\ ServerAnswers(s, m)
  BY DEF ServerReads
<1>2. sockets[s] \in Sockets /\ served \in Seq(ServedTurns) /\ Len(served) \in Nat
      /\ s \in Nat
  BY DEF AnswersInv, Types
<1>3. Carried
  BY DEF CompletionsInv
<1>4. m.id \in Nat
  <2>1. sockets[s].out \in Seq(Outgoing)
    BY <1>2 DEF Sockets
  <2>2. m \in Outgoing
    BY <1>1, <2>1, TailElems
  <2>3. QED
    BY <2>2 DEF Outgoing
<1>5. \A t \in 1 .. Len(served) : served[t].conn \in 1 .. Len(sockets)
        /\ sockets[served[t].conn].state # "connecting"
  BY <1>3 DEF Carried
<1>6. ASSUME UNCHANGED served
      PROVE  \A a : Completes(a)
  BY <1>2, <1>5, <1>6 DEF Completes
<1>7. CASE UNCHANGED served /\ m.kind = "initialize"
           /\ Exchange(s, TRUE, Append(in, Message("answer", m.id, 0)))
  <2> DEFINE answer == Message("answer", m.id, 0)
             in2 == Append(in, answer)
  <2>1. answer \in Incoming /\ answer.ref = 0
    BY <1>4 DEF Message, Incoming
  <2>2. in2 \in {sockets[s].in, Append(sockets[s].in, answer)} /\ Exchange(s, TRUE, in2)
    BY <1>7
  <2> HIDE DEF answer, in2
  <2>3. GoesOn(answer, s, served')
    BY <2>1 DEF GoesOn
  <2>4. Says(answer)
    BY <1>1, <1>3, <2>1, <2>2, <2>3, ExchangeSays
  <2>5. QED
    BY <1>1, <1>6, <1>7, <2>1, <2>4, ServerCompletions
<1>8. CASE UNCHANGED served
           /\ Exchange(s, sockets[s].shaken, Append(in, Message("error", m.id, 0)))
  <2> DEFINE answer == Message("error", m.id, 0)
             in2 == Append(in, answer)
             shaken == sockets[s].shaken
  <2>1. answer \in Incoming /\ answer.ref = 0
    BY <1>4 DEF Message, Incoming
  <2>2. in2 \in {sockets[s].in, Append(sockets[s].in, answer)} /\ Exchange(s, shaken, in2)
    BY <1>8
  <2> HIDE DEF answer, in2, shaken
  <2>3. GoesOn(answer, s, served')
    BY <2>1 DEF GoesOn
  <2>4. Says(answer)
    BY <1>1, <1>3, <2>1, <2>2, <2>3, ExchangeSays
  <2>5. QED
    BY <1>1, <1>6, <1>8, <2>1, <2>4, ServerCompletions
<1>9. CASE UNCHANGED served /\ Exchange(s, sockets[s].shaken, in)
  <2> DEFINE answer == Message("error", m.id, 0)
             shaken == sockets[s].shaken
  <2>1. answer \in Incoming /\ answer.ref = 0
    BY <1>4 DEF Message, Incoming
  <2>2. in \in {sockets[s].in, Append(sockets[s].in, answer)} /\ Exchange(s, shaken, in)
    BY <1>9
  <2> HIDE DEF answer, shaken
  <2>3. GoesOn(answer, s, served')
    BY <2>1 DEF GoesOn
  <2>4. Says(answer)
    BY <1>1, <1>3, <2>1, <2>2, <2>3, ExchangeSays
  <2>5. QED
    BY <1>1, <1>6, <1>9, <2>1, <2>4, ServerCompletions
<1>10. CASE /\ served' = Append(served, [conn |-> s, caller |-> m.ref, id |-> m.id,
                                         ask |-> 0, state |-> "running"])
            /\ Exchange(s, sockets[s].shaken,
                 IF setup.line THEN in
                 ELSE Append(in, Message("answer", m.id, Len(served) + 1)))
  <2> DEFINE t == [conn |-> s, caller |-> m.ref, id |-> m.id, ask |-> 0, state |-> "running"]
             answer == Message("answer", m.id, Len(served) + 1)
             in2 == IF setup.line THEN in ELSE Append(in, answer)
             shaken == sockets[s].shaken
  <2>1. answer \in Incoming /\ answer.ref = Len(served) + 1
    BY <1>2, <1>4 DEF Message, Incoming
  <2>2. in2 \in {sockets[s].in, Append(sockets[s].in, answer)} /\ Exchange(s, shaken, in2)
    BY <1>10
  <2>3. t.conn = s /\ t.state = "running"
    OBVIOUS
  <2>4. Len(served') = Len(served) + 1 /\ served'[Len(served) + 1] = t
        /\ \A u \in 1 .. Len(served) : served'[u] = served[u]
    BY <1>2, <1>10
  <2> HIDE DEF t, answer, in2, shaken, m
  <2>5. GoesOn(answer, s, served')
    BY <2>1, <2>3, <2>4 DEF GoesOn
  <2>6. Says(answer)
    BY <1>1, <1>3, <2>1, <2>2, <2>5, ExchangeSays
  <2>7. sockets[s].state # "connecting"
    BY <1>1, <1>3 DEF Carried
  <2>8. ASSUME NEW u \in 1 .. Len(served')
        PROVE  served'[u].conn \in 1 .. Len(sockets)
               /\ sockets[served'[u].conn].state # "connecting"
    <3>1. CASE u = Len(served) + 1
      BY <2>3, <2>4, <2>7, <3>1
    <3>2. CASE u \in 1 .. Len(served)
      BY <1>5, <2>4, <3>2
    <3>3. QED
      BY <1>2, <2>4, <3>1, <3>2
  <2>9. Completes(answer)
    BY <1>2, <2>4, <2>8 DEF Completes
  <2>10. QED
    BY <1>1, <2>1, <2>6, <2>9, ServerCompletions
<1>11. CASE /\ served' = [t \in DOMAIN served |->
                 IF served[t].conn = s /\ served[t].state = "asking" /\ served[t].ask = m.id
                 THEN [served[t] EXCEPT !.state = "running"] ELSE served[t]]
            /\ Exchange(s, sockets[s].shaken, in)
  <2> DEFINE answer == Message("error", m.id, 0)
             shaken == sockets[s].shaken
  <2>1. answer \in Incoming /\ answer.ref = 0
    BY <1>4 DEF Message, Incoming
  <2>2. in \in {sockets[s].in, Append(sockets[s].in, answer)} /\ Exchange(s, shaken, in)
    BY <1>11
  <2> HIDE DEF answer, shaken
  <2>3. GoesOn(answer, s, served')
    BY <2>1 DEF GoesOn
  <2>4. Says(answer)
    BY <1>1, <1>3, <2>1, <2>2, <2>3, ExchangeSays
  <2>5. DOMAIN served = 1 .. Len(served)
    BY <1>2
  <2>6. \A t \in 1 .. Len(served) : served[t] \in ServedTurns
    BY <1>2
  <2> HIDE DEF m
  <2>7. served' \in [1 .. Len(served) -> ServedTurns]
    <3>1. \A t \in 1 .. Len(served) : [served[t] EXCEPT !.state = "running"] \in ServedTurns
      BY <2>6 DEF ServedTurns
    <3>2. QED
      BY <1>11, <2>5, <2>6, <3>1
  <2>8. Len(served') = Len(served)
    BY <1>2, <2>7
  <2>9. \A t \in 1 .. Len(served) :
          /\ served'[t].conn = served[t].conn
          /\ served'[t].state = "completed" => served[t].state = "completed"
    BY <1>11, <2>5, <2>6 DEF ServedTurns
  <2>10. Completes(answer)
    BY <1>2, <1>5, <2>8, <2>9 DEF Completes
  <2>11. QED
    BY <1>1, <2>1, <2>4, <2>10, ServerCompletions
<1>12. QED
  <2>1. CASE m.kind = "initialize"
    BY <1>1, <1>7, <2>1 DEF ServerAnswers, Exchange
  <2>2. CASE UNCHANGED served /\ sockets' = [sockets EXCEPT ![s].out = Tail(@),
                                 ![s].in = Append(@, Message("error", m.id, 0))]
    <3>1. Exchange(s, sockets[s].shaken, Append(in, Message("error", m.id, 0)))
      BY <1>2, <2>2 DEF Sockets, Exchange
    <3>2. QED
      BY <1>8, <2>2, <3>1
  <2>3. CASE UNCHANGED served /\ sockets' = [sockets EXCEPT ![s].out = Tail(@)]
    <3>1. Exchange(s, sockets[s].shaken, in)
      BY <1>2, <2>3 DEF Sockets, Exchange
    <3>2. QED
      BY <1>9, <2>3, <3>1
  <2>4. CASE /\ served' = Append(served, [conn |-> s, caller |-> m.ref, id |-> m.id,
                                          ask |-> 0, state |-> "running"])
             /\ sockets' = [sockets EXCEPT ![s].out = Tail(@),
                  ![s].in = IF setup.line THEN @
                            ELSE Append(@, Message("answer", m.id, Len(served) + 1))]
    <3>1. Exchange(s, sockets[s].shaken,
                   IF setup.line THEN in
                   ELSE Append(in, Message("answer", m.id, Len(served) + 1)))
      BY <1>2, <2>4 DEF Sockets, Exchange
    <3>2. QED
      BY <1>10, <2>4, <3>1
  <2>5. CASE /\ sockets' = [sockets EXCEPT ![s].out = Tail(@)]
             /\ served' = [t \in DOMAIN served |->
                  IF served[t].conn = s /\ served[t].state = "asking" /\ served[t].ask = m.id
                  THEN [served[t] EXCEPT !.state = "running"] ELSE served[t]]
    <3>1. Exchange(s, sockets[s].shaken, in)
      BY <1>2, <2>5 DEF Sockets, Exchange
    <3>2. QED
      BY <1>11, <2>5, <3>1
  <2>6. ServerAnswers(s, m)
    BY <1>1
  <2> HIDE DEF m
  <2>7. QED
    BY ONLY <2>1, <2>2, <2>3, <2>4, <2>5, <2>6 DEF ServerAnswers

-----------------------------------------------------------------------------
(* The inductive invariant.                                                 *)

LEMMA InitIInv ==
  ASSUME Init
  PROVE  IInv
<1> DEFINE k == [Connecting EXCEPT !.state = "open", !.listening = TRUE, !.shaken = TRUE]
<1>1. setup \in Setups /\ calls = [c \in Callers |-> Idle]
      /\ sockets = (IF setup.line THEN << k >> ELSE << >>)
      /\ socket = Len(sockets) /\ nextId = 1 /\ pending = {} /\ turns = {} /\ handling = {}
      /\ served = << >> /\ asks = 0
  BY DEF Init
<1>2. Idle \in Calls /\ Idle.id = 0 /\ Idle.pc = "idle"
  BY DEF Idle, Calls, Phases, Waiting
<1>3. Connecting \in Sockets
  BY DEF Connecting, Sockets
<1>4. k \in Sockets /\ k.state = "open" /\ k.in = << >> /\ k.out = << >>
  BY <1>3 DEF Sockets, Connecting
<1> HIDE DEF k
<1>5. sockets \in Seq(Sockets) /\ Len(sockets) \in 0 .. 1
      /\ \A s \in 1 .. Len(sockets) : sockets[s] = k
  <2>1. CASE setup.line
    <3>1. sockets = << k >>
      BY <1>1, <2>1
    <3>2. QED
      BY <1>4, <3>1
  <2>2. CASE ~ setup.line
    BY <1>1, <2>2
  <2>3. QED
    BY <2>1, <2>2
<1>6. \A c \in Callers : calls[c] = Idle
  BY <1>1
<1>7. Types
  BY <1>1, <1>2, <1>5 DEF Types
<1>8. Numbers
  BY <1>1, <1>2, <1>6 DEF Numbers
<1>9. Messages
  BY <1>4, <1>5 DEF Messages, AllGood, GoodOuts, GoodIns
<1>10. Owed
  BY <1>1 DEF Owed
<1>11. Turns
  BY <1>1, <1>2, <1>6 DEF Turns, OwnTurn
<1>12. Connections
  BY <1>2, <1>6 DEF Connections
<1>13. Carried
  BY <1>1, <1>4, <1>5 DEF Carried
<1>14. Sequenced
  BY <1>4, <1>5 DEF Sequenced, InSequence
<1>15. Listed /\ Awaited
  BY <1>2, <1>6 DEF Listed, Awaited
<1>16. QED
  BY <1>7, <1>8, <1>9, <1>10, <1>11, <1>12, <1>13, <1>14, <1>15
     DEF IInv, AnswersInv, CompletionsInv

LEMMA UnchangedIInv ==
  ASSUME IInv, UNCHANGED vars
  PROVE  IInv'
<1>1. UNCHANGED << setup, calls, socket, nextId, pending, turns, handling, sockets, served,
                   asks >>
  BY DEF vars, client, budgets
<1>2. AnswersInv'
  BY <1>1 DEF IInv, AnswersInv, Types, Numbers, Messages, Owed, Turns
<1>3. CompletionsInv'
  BY <1>1 DEF IInv, CompletionsInv, Connections, Carried, Sequenced, Listed, Awaited
<1>4. QED
  BY <1>2, <1>3 DEF IInv

LEMMA NextIInv ==
  ASSUME IInv, Next
  PROVE  IInv'
<1> USE DEF IInv
<1>1. Connections /\ Carried
  BY DEF CompletionsInv
<1>2. CASE \E c \in Callers : Call(c)
  BY <1>2, CallAnswers, CallCompletions
<1>3. CASE \E c \in Callers : Opened(c)
  BY <1>1, <1>3, OpenedAnswers, OpenedCompletions
<1>4. CASE \E c \in Callers : AwaitTurn(c)
  BY <1>4, AwaitTurnAnswers, AwaitTurnCompletions
<1>5. CASE \E c \in Callers : ConnectFails(c)
  BY <1>1, <1>5, ConnectFailsAnswers, ConnectFailsCompletions
<1>6. CASE \E p \in pending : RequestTimesOut(p)
  BY <1>6, RequestTimesOutAnswers, RequestTimesOutCompletions
<1>7. CASE \E t \in turns : TurnTimesOut(t)
  BY <1>7, TurnTimesOutAnswers, TurnTimesOutCompletions
<1>8. CASE \E h \in handling : Reply(h)
  BY <1>8, ReplyAnswers, ReplyCompletions
<1>9. CASE Close
  BY <1>9, CloseAnswers, CloseCompletions
<1>10. CASE \E s \in 1 .. Len(sockets) : OpenedUnheard(s)
  BY <1>10, OpenedUnheardAnswers, OpenedUnheardCompletions
<1>11. CASE \E s \in 1 .. Len(sockets) : HandleMessage(s)
  BY <1>1, <1>11, HandleMessageAnswers, HandleMessageCompletions
<1>12. CASE \E s \in 1 .. Len(sockets) : SocketCloses(s)
  BY <1>12, SocketClosesAnswers, SocketClosesCompletions
<1>13. CASE \E s \in 1 .. Len(sockets) : SocketFails(s)
  BY <1>13, SocketFailsAnswers, SocketFailsCompletions
<1>14. CASE \E s \in 1 .. Len(sockets) : ServerReads(s)
  BY <1>14, ServerReadsAnswers, ServerReadsCompletions
<1>15. CASE \E t \in 1 .. Len(served) : ServerAsks(t)
  BY <1>1, <1>15, ServerAsksAnswers, ServerAsksCompletions
<1>16. CASE \E t \in 1 .. Len(served) : ServerCompletes(t)
  BY <1>1, <1>16, ServerCompletesAnswers, ServerCompletesCompletions
<1>17. DOMAIN sockets = 1 .. Len(sockets) /\ DOMAIN served = 1 .. Len(served)
  BY DEF AnswersInv, Types
<1>18. QED
  BY <1>2, <1>3, <1>4, <1>5, <1>6, <1>7, <1>8, <1>9, <1>10, <1>11, <1>12, <1>13,
     <1>14, <1>15, <1>16, <1>17 DEF Next, Network, Timers

(* The messages in flight, the tables of the client and the turns of the    *)
(* server stay consistent over any number of callers and sockets.           *)
THEOREM ClientConsistent == Spec => []IInv
BY InitIInv, NextIInv, UnchangedIInv, PTL DEF Spec

(* A call that succeeds has the completed turn it asked for, or, on a line  *)
(* transport, none at all: there a request of the server that has the       *)
(* number of a pending one resolves it with nothing (handleLine).           *)
THEOREM CallsGetTheirTurns == Spec => []OwnAnswers
<1>1. IInv => OwnAnswers
  BY DEF IInv, AnswersInv, Turns, OwnTurn, OwnAnswers, EndsWithout
<1>2. QED
  BY <1>1, ClientConsistent, PTL

(* When frames come one by one, a call that waits for a turn that was       *)
(* completed has the completion still before it, on a socket it listens to. *)
THEOREM NoCompletionMissed == Spec => []NoTurnMissed
<1>1. IInv => NoTurnMissed
  BY DEF IInv, CompletionsInv, Awaited, Coming, Completed, NoTurnMissed
<1>2. QED
  BY <1>1, ClientConsistent, PTL
=============================================================================
