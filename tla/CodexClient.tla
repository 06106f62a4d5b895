---------------------------- MODULE CodexClient ----------------------------
(***************************************************************************)
(* The JSON-RPC clients of the Codex App Server.                           *)
(*                                                                         *)
(* Source: packages/core/src/codex_app_server.ts,                          *)
(* CodexAppServerWebSocketClient (connect, handshake, request, turn,       *)
(* notifications, inbound requests, timers, close) and                     *)
(* CodexAppServerLineJsonRpcClient (stdio and Unix sockets).               *)
(*                                                                         *)
(* Callers of one client share its request table, its table of turns and   *)
(* its current socket.  A call of startTurn runs to its next await, so     *)
(* between its steps come other calls, the messages of any socket, timers, *)
(* the closing of a socket and close().  The server and the network are    *)
(* external: a server answers in its own time, asks the client for         *)
(* approvals, completes turns, and connections break.                      *)
(***************************************************************************)
EXTENDS Naturals, Sequences, SequencesExt, FiniteSets

CONSTANTS
  Callers,      \* the turns that may use the client
  Setups,       \* the circumstances that are explored
  MaxCalls,     \* how many calls are made
  MaxSockets,   \* how many sockets are created
  MaxAsks,      \* how many requests the server makes
  MaxCloses     \* how often close() is called

(***************************************************************************)
(* A setup.  callers: who uses the client; line: a line transport, whose   *)
(* server answers a turn when it is complete; batched: frames that arrive  *)
(* together are handled before any promise continues; collide: the server  *)
(* numbers its requests as the client does, from one; limit: the calls.    *)
(***************************************************************************)
ASSUME CodexAssumption ==
  /\ Setups \subseteq [callers : SUBSET Callers, line : BOOLEAN,
                       batched : BOOLEAN, collide : BOOLEAN,
                       limit : 1 .. MaxCalls]
  /\ MaxCalls \in Nat /\ MaxSockets \in Nat \ {0}
  /\ MaxAsks \in Nat /\ MaxCloses \in Nat

VARIABLES
  setup,        \* the member of Setups this behaviour is about; never changes
  calls,        \* where each call stands
  socket,       \* this.socket; 0 when undefined
  initialized,  \* this.initialized
  nextId,       \* this.nextId
  pending,      \* this.pending: the requests without an answer
  turns,        \* this.pendingTurns
  handling,     \* the inbound requests whose handlers run
  sockets,      \* every socket made so far, with what is in flight on it
  served,       \* the turns of the server, numbered as they start
  started, asks, closes

client == << socket, initialized, nextId, pending, turns, handling >>
budgets == << started, asks, closes >>
vars == << setup, calls, client, sockets, served, budgets >>

-----------------------------------------------------------------------------
(* Messages and sockets.                                                    *)

Message(kind, id, ref) == [kind |-> kind, id |-> id, ref |-> ref]

Connecting == [state |-> "connecting", listening |-> FALSE, shaken |-> FALSE,
               out |-> << >>, in |-> << >>]

Idle == [pc |-> "idle", conn |-> 0, id |-> 0, turn |-> 0]

(* A socket that is closing or closed discards what is sent.                *)
Sent(all, s, m) ==
  IF all[s].state = "open" THEN [all EXCEPT ![s].out = Append(@, m)] ELSE all

ToClient(s, m) ==
  IF sockets[s].state = "closed" THEN sockets
  ELSE [sockets EXCEPT ![s].in = Append(@, m)]

(* The ids of the requests of the server.                                   *)
AskId == IF setup.collide THEN asks + 1 ELSE 100 + asks

Init ==
  /\ setup \in Setups
  /\ calls = [c \in Callers |-> Idle]
  /\ sockets = IF setup.line
               THEN << [Connecting EXCEPT !.state = "open", !.listening = TRUE,
                                          !.shaken = TRUE] >>
               ELSE << >>
  /\ socket = Len(sockets) /\ initialized = setup.line
  /\ nextId = 1 /\ pending = {} /\ turns = {} /\ handling = {}
  /\ served = << >>
  /\ started = 0 /\ asks = 0 /\ closes = 0

-----------------------------------------------------------------------------
(* The client.                                                              *)

(* The variant that numbers the requests of every connection from one.      *)
SendNumberedAnew(c, kind, all, rest) ==
  /\ socket # 0
  /\ nextId' = IF kind = "initialize" THEN 2 ELSE nextId + 1
  /\ LET id == nextId' - 1 IN
       /\ pending' = {p \in rest : p.id # id} \cup {[id |-> id, caller |-> c]}
       /\ sockets' = Sent(all, socket, Message(kind, id, c))
       /\ calls' = [calls EXCEPT ![c].id = id,
                      ![c].pc = IF kind = "initialize" THEN "handshake" ELSE "starting"]

(* request and requestWithoutInitialization: the entry of the table is made *)
(* before the message is sent, and sending on a socket that is not open yet *)
(* throws; rest is the table without the answered request.                  *)
SendRequest(c, kind, all, rest) ==
  IF socket = 0
  THEN /\ calls' = [calls EXCEPT ![c].pc = "failed"]
       /\ sockets' = all /\ pending' = rest /\ UNCHANGED nextId
  ELSE /\ nextId' = nextId + 1
       /\ pending' = rest \cup {[id |-> nextId, caller |-> c]}
       /\ sockets' = Sent(all, socket, Message(kind, nextId, c))
       /\ calls' = [calls EXCEPT
            ![c].id = nextId,
            ![c].pc = IF all[socket].state = "connecting" THEN "failed"
                      ELSE IF kind = "initialize" THEN "handshake" ELSE "starting"]

(* The variant that does other work between an answer and what awaits it.   *)
NeverQuiet == TRUE

(* No promise is about to continue: otherwise no other event comes first.   *)
Quiet == \A c \in Callers : calls[c].pc # "answered"

Ready == initialized /\ socket # 0 /\ sockets[socket].state = "open"

(* startTurn up to its first await.  Without a usable socket it makes one,  *)
(* ensureInitialized, whatever other callers are doing about it.            *)
Call(c) ==
  /\ Quiet /\ c \in setup.callers
  /\ calls[c].pc \in {"idle", "done", "failed"}
  /\ started < setup.limit /\ started' = started + 1
  /\ IF Ready \/ setup.line
     THEN SendRequest(c, "start", sockets, pending) /\ UNCHANGED socket
     ELSE /\ Len(sockets) < MaxSockets
          /\ sockets' = Append(sockets, Connecting)
          /\ socket' = Len(sockets) + 1
          /\ calls' = [calls EXCEPT ![c] = [Idle EXCEPT !.pc = "connecting",
                                                        !.conn = Len(sockets) + 1]]
          /\ UNCHANGED << nextId, pending >>
  /\ UNCHANGED << setup, initialized, turns, handling, served, asks, closes >>

(* The socket opens: its listeners are attached, and the handshake is sent  *)
(* on what is then the client's socket.                                     *)
Opened(c) ==
  /\ Quiet /\ calls[c].pc = "connecting"
  /\ sockets[calls[c].conn].state = "connecting"
  /\ SendRequest(c, "initialize",
                 [sockets EXCEPT ![calls[c].conn].state = "open",
                                 ![calls[c].conn].listening = TRUE], pending)
  /\ UNCHANGED << setup, socket, initialized, turns, handling, served, budgets >>

(* Or it does not: its timer fires, or an error event comes.                *)
ConnectFails(c) ==
  /\ Quiet /\ calls[c].pc = "connecting"
  /\ calls' = [calls EXCEPT ![c].pc = "failed"]
  /\ \/ UNCHANGED sockets
     \/ sockets' = [sockets EXCEPT ![calls[c].conn].state = "closed"]
  /\ UNCHANGED << setup, client, served, budgets >>

(* A socket nobody waits for any more opens all the same.                   *)
OpenedUnheard(s) ==
  /\ Quiet /\ sockets[s].state = "connecting"
  /\ \A c \in Callers : ~ (calls[c].pc = "connecting" /\ calls[c].conn = s)
  /\ sockets' = [sockets EXCEPT ![s].state = "open"]
  /\ UNCHANGED << setup, calls, client, served, budgets >>

Waits(c, p) == p.caller = c /\ calls[c].id = p.id
               /\ calls[c].pc \in {"handshake", "starting"}

(* What the answered request resolves with: the result of an answer, and    *)
(* nothing when it was a request of the server, which has no result.        *)
Result(m) == IF m.kind = "answer" THEN m.ref ELSE 0

(* startTurn of a line client returns whatever the request resolves with;   *)
(* that of the WebSocket client wants a turn to wait for.                   *)
Continued(m) ==
  IF setup.line THEN IF m.kind = "error" THEN "failed" ELSE "done"
  ELSE IF m.kind = "answer" THEN "answered" ELSE "failed"

(* handleMessage and handleLine for a message whose id is in the table:     *)
(* whatever it is, it answers that request.  The answer to the handshake    *)
(* lets the call go on to its request, on what is then the client's socket. *)
HandleAnswer(s, m, p) ==
  LET c == p.caller
      read == [sockets EXCEPT ![s].in = Tail(@)]
      rest == pending \ {p}
  IN
    \/ /\ Waits(c, p) /\ calls[c].pc = "handshake" /\ m.kind # "error"
       /\ initialized' = TRUE
       /\ SendRequest(c, "start",
                      Sent(read, calls[c].conn, Message("initialized", 0, c)), rest)
    \/ /\ ~ (Waits(c, p) /\ calls[c].pc = "handshake" /\ m.kind # "error")
       /\ calls' = IF ~ Waits(c, p) THEN calls
                   ELSE [calls EXCEPT ![c].turn = Result(m), ![c].pc = Continued(m)]
       /\ pending' = rest /\ sockets' = read
       /\ UNCHANGED << initialized, nextId >>

(* handleInboundRequest up to its await; the line client ignores requests.  *)
HandleAsk(s, m) ==
  /\ handling' = IF setup.line THEN handling ELSE handling \cup {[conn |-> s, id |-> m.id]}
  /\ sockets' = [sockets EXCEPT ![s].in = Tail(@)]
  /\ UNCHANGED << calls, turns >>

(* handleNotification for turn/completed: a turn that failed rejects.       *)
HandleCompleted(s, m) ==
  /\ sockets' = [sockets EXCEPT ![s].in = Tail(@)]
  /\ turns' = {t \in turns : t.turn # m.ref}
  /\ \E end \in {"done", "failed"} :
       calls' = [c \in Callers |-> IF [turn |-> m.ref, caller |-> c] \in turns
                                  THEN [calls[c] EXCEPT !.pc = end] ELSE calls[c]]
  /\ UNCHANGED handling

HandleMessage(s) ==
  /\ setup.batched \/ Quiet
  /\ sockets[s].listening /\ sockets[s].in # << >>
  /\ LET m == Head(sockets[s].in)
         known == {p \in pending : p.id = m.id}
     IN  \/ /\ known # {}
            /\ \E p \in known : HandleAnswer(s, m, p)
            /\ UNCHANGED << turns, handling >>
         \/ /\ known = {}
            /\ \/ m.kind = "ask" /\ HandleAsk(s, m)
               \/ m.kind = "completed" /\ HandleCompleted(s, m)
               \/ /\ m.kind \in {"answer", "error"}
                  /\ sockets' = [sockets EXCEPT ![s].in = Tail(@)]
                  /\ UNCHANGED << calls, turns, handling >>
            /\ UNCHANGED << initialized, nextId, pending >>
  /\ UNCHANGED << setup, socket, served, budgets >>

(* waitForTurnCompletion: the promise of the request continues.  The server *)
(* answers turn/start while the turn is in progress; one that answers with  *)
(* a turn that has ended, on which this returns at once, is left out.       *)
AwaitTurn(c) ==
  /\ calls[c].pc = "answered"
  /\ turns' = turns \cup {[turn |-> calls[c].turn, caller |-> c]}
  /\ calls' = [calls EXCEPT ![c].pc = "turn"]
  /\ UNCHANGED << setup, socket, initialized, nextId, pending, handling, sockets,
                  served, budgets >>

(* The handler of an inbound request ends; the reply goes to what is then   *)
(* the client's socket.  Sending on one that is not open yet throws, and    *)
(* nobody awaits that.                                                      *)
Reply(h) ==
  /\ Quiet
  /\ handling' = handling \ {h}
  /\ sockets' = IF socket = 0 THEN sockets
                ELSE Sent(sockets, socket, Message("reply", h.id, h.conn))
  /\ UNCHANGED << setup, calls, socket, initialized, nextId, pending, turns,
                  served, budgets >>

(* The variant that forgets the turns it does not reject.                   *)
RejectRequestsOnly ==
  /\ pending' = {} /\ turns' = {}
  /\ calls' = [c \in Callers |-> IF \E p \in pending : Waits(c, p)
                                 THEN [calls[c] EXCEPT !.pc = "failed"] ELSE calls[c]]

(* rejectPending                                                            *)
RejectPending ==
  /\ pending' = {} /\ turns' = {}
  /\ calls' = [c \in Callers |->
       IF calls[c].pc = "turn" \/ \E p \in pending : Waits(c, p)
       THEN [calls[c] EXCEPT !.pc = "failed"] ELSE calls[c]]

(* A socket closes; the listener of any socket rejects all that is pending. *)
SocketCloses(s) ==
  /\ Quiet /\ sockets[s].state \in {"open", "closing"}
  /\ sockets' = [sockets EXCEPT ![s].state = "closed", ![s].in = << >>,
                                ![s].out = << >>]
  /\ IF sockets[s].listening
     THEN initialized' = setup.line /\ RejectPending
     ELSE UNCHANGED << calls, initialized, pending, turns >>
  /\ UNCHANGED << setup, socket, nextId, handling, served, budgets >>

(* An error of a socket rejects it too, and leaves the socket in use.       *)
SocketFails(s) ==
  /\ Quiet /\ sockets[s].listening /\ sockets[s].state = "open"
  /\ RejectPending
  /\ UNCHANGED << setup, socket, initialized, nextId, handling, sockets, served,
                  budgets >>

Close ==
  /\ Quiet /\ closes < MaxCloses /\ ~ setup.line
  /\ closes' = closes + 1
  /\ sockets' = IF socket # 0 /\ sockets[socket].state = "open"
                THEN [sockets EXCEPT ![socket].state = "closing"] ELSE sockets
  /\ socket' = 0 /\ initialized' = FALSE
  /\ RejectPending
  /\ UNCHANGED << setup, nextId, handling, served, started, asks >>

RequestTimesOut(p) ==
  /\ Quiet
  /\ pending' = pending \ {p}
  /\ calls' = IF Waits(p.caller, p)
              THEN [calls EXCEPT ![p.caller].pc = "failed"] ELSE calls
  /\ UNCHANGED << setup, socket, initialized, nextId, turns, handling, sockets,
                  served, budgets >>

TurnTimesOut(t) ==
  /\ Quiet
  /\ turns' = turns \ {t}
  /\ calls' = [calls EXCEPT ![t.caller].pc = "failed"]
  /\ UNCHANGED << setup, socket, initialized, nextId, pending, handling, sockets,
                  served, budgets >>

-----------------------------------------------------------------------------
(* The server.                                                              *)

ServerAnswers(s, m) ==
  \/ /\ m.kind = "initialize"
     /\ sockets' = [sockets EXCEPT ![s].out = Tail(@), ![s].shaken = TRUE,
                                   ![s].in = Append(@, Message("answer", m.id, 0))]
     /\ UNCHANGED served
  \/ /\ m.kind = "start" /\ sockets[s].shaken
     /\ served' = Append(served, [conn |-> s, caller |-> m.ref, id |-> m.id,
                                  ask |-> 0, state |-> "running"])
     /\ sockets' = [sockets EXCEPT ![s].out = Tail(@),
          ![s].in = IF setup.line THEN @
                    ELSE Append(@, Message("answer", m.id, Len(served) + 1))]
  \/ /\ m.kind = "start"
     /\ sockets' = [sockets EXCEPT ![s].out = Tail(@),
                                   ![s].in = Append(@, Message("error", m.id, 0))]
     /\ UNCHANGED served
  \/ /\ m.kind = "initialized"
     /\ sockets' = [sockets EXCEPT ![s].out = Tail(@)]
     /\ UNCHANGED served
  \/ /\ m.kind = "reply"
     /\ sockets' = [sockets EXCEPT ![s].out = Tail(@)]
     /\ served' = [t \in DOMAIN served |->
          IF served[t].conn = s /\ served[t].state = "asking" /\ served[t].ask = m.id
          THEN [served[t] EXCEPT !.state = "running"] ELSE served[t]]

ServerReads(s) ==
  /\ Quiet /\ sockets[s].state # "closed" /\ sockets[s].out # << >>
  /\ ServerAnswers(s, Head(sockets[s].out))
  /\ UNCHANGED << setup, calls, client, budgets >>

ServerAsks(t) ==
  /\ Quiet /\ asks < MaxAsks /\ asks' = asks + 1
  /\ served[t].state = "running" /\ sockets[served[t].conn].state # "closed"
  /\ served' = [served EXCEPT ![t].state = "asking", ![t].ask = AskId]
  /\ sockets' = ToClient(served[t].conn, Message("ask", AskId, t))
  /\ UNCHANGED << setup, calls, client, started, closes >>

ServerCompletes(t) ==
  /\ Quiet /\ served[t].state = "running"
  /\ served' = [served EXCEPT ![t].state = "completed"]
  /\ sockets' = ToClient(served[t].conn,
                         IF setup.line THEN Message("answer", served[t].id, t)
                         ELSE Message("completed", 0, t))
  /\ UNCHANGED << setup, calls, client, budgets >>

Network ==
  \/ \E s \in DOMAIN sockets : OpenedUnheard(s) \/ HandleMessage(s)
                               \/ SocketCloses(s) \/ SocketFails(s)
                               \/ ServerReads(s)
  \/ \E t \in DOMAIN served : ServerAsks(t) \/ ServerCompletes(t)

Timers(c) ==
  \/ ConnectFails(c)
  \/ \E p \in pending : p.caller = c /\ RequestTimesOut(p)
  \/ \E t \in turns : t.caller = c /\ TurnTimesOut(t)

Next ==
  \/ \E c \in Callers : Call(c) \/ Opened(c) \/ AwaitTurn(c) \/ Timers(c)
  \/ \E h \in handling : Reply(h)
  \/ Close \/ Network

(* Promises continue and timers fire.                                       *)
Fairness == \A c \in Callers : WF_vars(AwaitTurn(c)) /\ WF_vars(Timers(c))

Spec == Init /\ [][Next]_vars /\ Fairness

-----------------------------------------------------------------------------
(* Properties.                                                              *)

Waiting == {"connecting", "handshake", "starting", "answered", "turn"}

Queues == Seq([kind : STRING, id : Nat, ref : Nat \cup Callers])

(* Types; and the tables have one entry per number, none of them reused.    *)
TypeOK ==
  /\ setup \in Setups
  /\ calls \in [Callers -> [pc : Waiting \cup {"idle", "done", "failed"},
                            conn : 0 .. MaxSockets, id : Nat, turn : Nat]]
  /\ socket \in 0 .. Len(sockets) /\ initialized \in BOOLEAN
  /\ sockets \in Seq([state : {"connecting", "open", "closing", "closed"},
                      listening : BOOLEAN, shaken : BOOLEAN,
                      out : Queues, in : Queues])
  /\ served \in Seq([conn : DOMAIN sockets, caller : Callers, id : Nat,
                     ask : Nat, state : {"running", "asking", "completed"}])
  /\ pending \subseteq [id : 1 .. nextId - 1, caller : Callers]
  /\ \A p, q \in pending : p.id = q.id => p = q
  /\ turns \subseteq [turn : DOMAIN served, caller : Callers]
  /\ handling \subseteq [conn : DOMAIN sockets, id : Nat]
  /\ started \in 0 .. MaxCalls /\ asks \in 0 .. MaxAsks /\ closes \in 0 .. MaxCloses

(* On a line transport a request of the server that has the number of a     *)
(* pending request resolves that one with nothing (handleLine).             *)
EndsWithout(c) == setup.line /\ calls[c].turn = 0

(* A call that succeeds has the completed turn it asked for, over timeouts, *)
(* late answers, reconnections, calls that share the client and requests of *)
(* the server that are taken for answers: those only fail calls, but on a   *)
(* line transport, where the call ends with no turn at all; it never has    *)
(* another's, or one that still runs (handleMessage, handleLine).           *)
OwnAnswers ==
  \A c \in Callers : calls[c].pc = "done" /\ ~ EndsWithout(c) =>
    /\ calls[c].turn # 0
    /\ served[calls[c].turn].caller = c
    /\ served[calls[c].turn].state = "completed"

(* A completion that was handled has ended its call: between the answer of  *)
(* turn/start and the entry in pendingTurns none is missed, unless frames   *)
(* are handled in one go (startTurn, waitForTurnCompletion).                *)
NoTurnMissed ==
  ~ setup.batched =>
    \A c \in Callers : calls[c].pc = "turn" =>
      LET t == served[calls[c].turn] IN
        t.state = "completed" =>
          Contains(sockets[t.conn].in, Message("completed", 0, calls[c].turn))

(* Every call ends, whatever the server and the network do.                 *)
EveryCallEnds ==
  \A c \in Callers : calls[c].pc \in Waiting ~> calls[c].pc \in {"done", "failed"}
=============================================================================
