----------------------------- MODULE Deployment -----------------------------
(* Blue/green deploys: a launcher verifies a candidate, launches it as a      *)
(* green child, hands the store lease over to it, watches its health, and     *)
(* promotes it or hands the lease back (packages/launcher/src/deploy.ts,      *)
(* process.ts, verify.ts).  The children are external: a deployable waits for *)
(* the lease and serves while it holds it.  The module has both kinds the     *)
(* repository knows: the scripted child of the launcher's tests, which stands *)
(* by when it loses the lease, and claw (claw/src/index.ts), which exits.     *)
(*                                                                            *)
(* Deploys follow one another; the child of deploy n is process n and process *)
(* 0 was serving before the first.  Time is left out: a deadline may pass at  *)
(* any moment, and a lease lapses only where the setup allows it.  How a      *)
(* candidate is replayed and compared is the verdict of one step.             *)
EXTENDS Integers

CONSTANTS
    MaxDeploys,  \* bound on the deploys of a run
    None,        \* no process
    Setups       \* what kind of children, and what may fail; chosen once

ASSUME DeploymentAssumption == MaxDeploys \in Nat /\ None \notin Nat

Procs == 0..MaxDeploys

\* signals: the child touches the ready file once it waits for the lease;
\* standby: a child that loses the lease stays warm, else it exits;
\* probe:   what the health probes ask: that green serves, or holds the lease,
\*          or nothing (there are none);
\* managed: deploy() is given the handle of the serving process;
\* lapses:  a lease may expire before it is renewed;
\* faults:  how many children and store calls may fail.
SetupType == [signals: BOOLEAN, standby: BOOLEAN, probe: {"serving", "lease", "none"},
              managed: BOOLEAN, lapses: BOOLEAN, faults: Nat]

VARIABLES
    setup,
    lease,       \* the lease row of the shared store
    proc,        \* process -> what it is doing
    ready,       \* the green child's ready file exists
    pc,          \* where deploy() is
    n,           \* how many deploys were started
    from,        \* blueHolder: the holder that was found before the handoff
    handedOff,   \* the handoff to green succeeded
    verdict,     \* of the last deploy
    given,       \* history: 0 and the processes that were handed the lease
    stranded,    \* history: this deploy gave green the lease without knowing it,
                 \* or its safe state could not hand the lease back
    faults       \* failures left

deployVars ==
    <<setup, lease, proc, ready, pc, n, from, handedOff, verdict, given, stranded, faults>>

Green == n

Holds(p) == lease.live /\ lease.holder = p

-----------------------------------------------------------------------------

DeployInit ==
    /\ setup \in Setups
    /\ lease = [holder |-> 0, live |-> TRUE]
    /\ proc = [p \in Procs |-> IF p = 0 THEN "serving" ELSE "absent"]
    /\ ready = FALSE /\ pc = "idle" /\ n = 0
    /\ from = None /\ handedOff = FALSE /\ verdict = "none"
    /\ given = {0} /\ stranded = FALSE
    /\ faults = setup.faults

-----------------------------------------------------------------------------
(* deploy() *)

End(v) == pc' = "idle" /\ verdict' = v

\* The candidate passes verification, or the deploy ends before a child exists.
Verify ==
    /\ pc = "idle" /\ n < MaxDeploys
    /\ n' = n + 1 /\ from' = None /\ handedOff' = FALSE /\ ready' = FALSE
    /\ stranded' = FALSE
    /\ \/ pc' = "launch" /\ verdict' = "none"
       \/ End("rejected")
    /\ UNCHANGED <<setup, lease, proc, given, faults>>

Launch ==
    /\ pc = "launch" /\ pc' = "waitReady"
    /\ proc' = [proc EXCEPT ![Green] = "starting"]
    /\ UNCHANGED <<setup, lease, ready, n, from, handedOff, verdict, given, stranded, faults>>

\* The ready file is looked at before the exit of the child is.
GreenReady ==
    /\ pc = "waitReady" /\ ready /\ pc' = "discover"
    /\ UNCHANGED <<setup, lease, proc, ready, n, from, handedOff, verdict, given, stranded, faults>>

\* No ready file in time, or the child is gone: green is killed.
GiveUpGreen ==
    /\ pc = "waitReady" /\ ~ready
    /\ End("rejected")
    /\ proc' = [proc EXCEPT ![Green] = "gone"]
    /\ UNCHANGED <<setup, lease, ready, n, from, handedOff, given, stranded, faults>>

\* Who holds the lease now; nobody is an exception.
Discover ==
    /\ pc = "discover"
    /\ IF lease.live THEN from' = lease.holder /\ pc' = "handoff"
                     ELSE from' = from /\ pc' = "safeState"
    /\ UNCHANGED <<setup, lease, proc, ready, n, handedOff, verdict, given, stranded, faults>>

GiveToGreen ==
    /\ Holds(from)
    /\ lease' = [holder |-> Green, live |-> TRUE]
    /\ given' = given \union {Green}

\* The lease moves only from the process that was found.
HandOff ==
    /\ pc = "handoff"
    /\ \/ GiveToGreen /\ handedOff' = TRUE /\ pc' = "confirm"
       \/ ~Holds(from) /\ UNCHANGED <<lease, given, handedOff>> /\ pc' = "safeState"
    /\ UNCHANGED <<setup, proc, ready, n, from, verdict, stranded, faults>>

\* The handoff takes effect and then throws: deploy() takes it for undone.
HandOffUnanswered ==
    /\ pc = "handoff" /\ faults > 0 /\ faults' = faults - 1
    /\ GiveToGreen /\ stranded' = TRUE /\ pc' = "safeState"
    /\ UNCHANGED <<setup, proc, ready, n, from, handedOff, verdict>>

Healthy ==
    /\ setup.probe # "none" => Holds(Green)
    /\ setup.probe = "serving" => proc[Green] = "serving"

\* Green took over; from here any failed probe counts.
Confirm ==
    /\ pc = "confirm" /\ Healthy /\ pc' = "watch"
    /\ UNCHANGED <<setup, lease, proc, ready, n, from, handedOff, verdict, given, stranded, faults>>

\* Not healthy before the deadline, or no longer healthy in the window.
Unhealthy ==
    /\ pc \in {"confirm", "watch"} /\ ~Healthy /\ pc' = "rollback"
    /\ UNCHANGED <<setup, lease, proc, ready, n, from, handedOff, verdict, given, stranded, faults>>

\* The window ends healthy.  The process deploy() was given is stopped.
Promote ==
    /\ pc = "watch" /\ Healthy
    /\ End("promoted")
    /\ proc' = IF setup.managed THEN [proc EXCEPT ![from] = "gone"] ELSE proc
    /\ UNCHANGED <<setup, lease, ready, n, from, handedOff, given, stranded, faults>>

\* Stopping that process throws, before or after it exits.
StopThrows ==
    /\ pc = "watch" /\ Healthy /\ setup.managed
    /\ faults > 0 /\ faults' = faults - 1
    /\ pc' = "safeState"
    /\ proc' \in {proc, [proc EXCEPT ![from] = "gone"]}
    /\ UNCHANGED <<setup, lease, ready, n, from, handedOff, verdict, given, stranded>>

\* The handoff back asks whether blue holds the lease.
HandBackFromBlue == lease' = IF Holds(from) THEN [lease EXCEPT !.holder = from] ELSE lease

\* handoff(green -> blue); it does nothing once green has lost the lease.
HandBack == lease' = IF Holds(Green) THEN [lease EXCEPT !.holder = from] ELSE lease

RollBack ==
    /\ pc = "rollback" /\ pc' = "killRolledBack"
    /\ HandBack
    /\ UNCHANGED <<setup, proc, ready, n, from, handedOff, verdict, given, stranded, faults>>

\* It takes effect and then throws.
RollBackUnanswered ==
    /\ pc = "rollback" /\ pc' = "safeState"
    /\ faults > 0 /\ faults' = faults - 1
    /\ HandBack
    /\ UNCHANGED <<setup, proc, ready, n, from, handedOff, verdict, given, stranded>>

\* Green is killed and the lease is left where it is.
LeaveLease ==
    /\ pc = "safeState" /\ pc' = "killRejected"
    /\ UNCHANGED <<setup, lease, proc, ready, n, from, handedOff, verdict, given, stranded, faults>>

SafeState ==
    /\ pc = "safeState" /\ pc' = "killRejected"
    /\ IF handedOff THEN HandBack ELSE lease' = lease
    /\ UNCHANGED <<setup, proc, ready, n, from, handedOff, verdict, given, stranded, faults>>

\* An exception of the handback is swallowed, and green is killed all the same.
SafeStateFails ==
    /\ pc = "safeState" /\ handedOff /\ pc' = "killRejected"
    /\ faults > 0 /\ faults' = faults - 1
    /\ stranded' = TRUE
    /\ UNCHANGED <<setup, lease, proc, ready, n, from, handedOff, verdict, given>>

Kill ==
    /\ pc \in {"killRolledBack", "killRejected"}
    /\ End(IF pc = "killRejected" THEN "rejected" ELSE "rolled-back")
    /\ proc' = [proc EXCEPT ![Green] = "gone"]
    /\ UNCHANGED <<setup, lease, ready, n, from, handedOff, given, stranded, faults>>

\* A store call throws and changed nothing: the safe state follows.
Throw ==
    /\ faults > 0 /\ faults' = faults - 1
    /\ pc \in {"discover", "handoff", "rollback"}
    /\ pc' = "safeState"
    /\ UNCHANGED <<setup, lease, proc, ready, n, from, handedOff, verdict, given, stranded>>

Deploy ==
    \/ Verify \/ Launch \/ GreenReady \/ GiveUpGreen \/ Discover \/ HandOff
    \/ HandOffUnanswered \/ Confirm \/ Unhealthy \/ Promote \/ StopThrows \/ RollBack
    \/ RollBackUnanswered \/ SafeState \/ SafeStateFails \/ Kill \/ Throw

-----------------------------------------------------------------------------
(* The children, and the lease they poll *)

\* The child is up and polls the lease.
ComesUp(p) ==
    /\ proc[p] = "starting"
    /\ proc' = [proc EXCEPT ![p] = "standby"]
    /\ ready' = (ready \/ setup.signals)
    /\ UNCHANGED <<setup, lease, pc, n, from, handedOff, verdict, given, stranded, faults>>

\* A child that is not serving takes any lease that is not another's.
TakeFree(p) ==
    /\ proc[p] = "standby" /\ (Holds(p) \/ ~lease.live)
    /\ proc' = [proc EXCEPT ![p] = "acquiring"]
    /\ UNCHANGED <<setup, lease, ready, pc, n, from, handedOff, verdict, given, stranded, faults>>

\* A child that is not serving waits until the lease is its own: a free lease
\* is not enough.
Take(p) ==
    /\ proc[p] = "standby" /\ Holds(p)
    /\ proc' = [proc EXCEPT ![p] = "acquiring"]
    /\ UNCHANGED <<setup, lease, ready, pc, n, from, handedOff, verdict, given, stranded, faults>>

\* Then it acquires the lease, in a call of its own: that fails if another got
\* it in between, and claw, whose start() fails with it, exits.
Acquire(p) ==
    /\ proc[p] = "acquiring"
    /\ \/ /\ Holds(p) \/ ~lease.live
          /\ proc' = [proc EXCEPT ![p] = "serving"]
          /\ lease' = [holder |-> p, live |-> TRUE]
       \/ /\ lease.live /\ lease.holder # p
          /\ proc' = [proc EXCEPT ![p] = IF setup.standby THEN "standby" ELSE "gone"]
          /\ UNCHANGED lease
    /\ UNCHANGED <<setup, ready, pc, n, from, handedOff, verdict, given, stranded, faults>>

\* A serving child finds another holder.
Lose(p) ==
    /\ proc[p] = "serving" /\ lease.live /\ lease.holder # p
    /\ proc' = [proc EXCEPT ![p] = IF setup.standby THEN "standby" ELSE "gone"]
    /\ UNCHANGED <<setup, lease, ready, pc, n, from, handedOff, verdict, given, stranded, faults>>

\* A serving child finds its lease expired: the scripted child takes it again,
\* claw's heartbeat fails and it exits.
Lapsed(p) ==
    /\ proc[p] = "serving" /\ ~lease.live
    /\ IF setup.standby
         THEN lease' = [holder |-> p, live |-> TRUE] /\ UNCHANGED proc
         ELSE proc' = [proc EXCEPT ![p] = "gone"] /\ UNCHANGED lease
    /\ UNCHANGED <<setup, ready, pc, n, from, handedOff, verdict, given, stranded, faults>>

Expire ==
    /\ setup.lapses /\ lease.live
    /\ lease' = [lease EXCEPT !.live = FALSE]
    /\ UNCHANGED <<setup, proc, ready, pc, n, from, handedOff, verdict, given, stranded, faults>>

Dies(p) ==
    /\ faults > 0 /\ faults' = faults - 1
    /\ proc[p] \in {"starting", "standby", "acquiring", "serving"}
    /\ proc' = [proc EXCEPT ![p] = "gone"]
    /\ UNCHANGED <<setup, lease, ready, pc, n, from, handedOff, verdict, given, stranded>>

Child(p) == ComesUp(p) \/ Take(p) \/ Acquire(p) \/ Lose(p) \/ Lapsed(p)

-----------------------------------------------------------------------------

DeployNext == Deploy \/ Expire \/ \E p \in Procs : Child(p) \/ Dies(p)

\* Children poll on an interval, and deploy() runs to its end: every wait of it
\* has a deadline.
DeploySpec ==
    /\ DeployInit /\ [][DeployNext]_deployVars
    /\ \A p \in Procs : WF_deployVars(Child(p))
    /\ WF_deployVars(pc # "idle" /\ Deploy)

-----------------------------------------------------------------------------

\* The shape of the state.
DeployTypeOK ==
    /\ setup \in SetupType
    /\ lease \in [holder: Procs, live: BOOLEAN]
    /\ proc \in [Procs -> {"absent", "starting", "standby", "acquiring", "serving", "gone"}]
    /\ ready \in BOOLEAN /\ handedOff \in BOOLEAN
    /\ n \in Procs /\ from \in Procs \union {None}
    /\ verdict \in {"none", "rejected", "rolled-back", "promoted"}
    /\ given \subseteq Procs /\ stranded \in BOOLEAN
    /\ faults \in Nat

\* Nothing but the launcher's cutover makes a candidate the writer: a child
\* gets the lease by the handoff of its own deploy, and after that handoff
\* only; however the holder before it died or its lease lapsed, and however
\* late it acts on a lease it saw.
NoStealing ==
    [][\A p \in Procs : lease'.holder = p /\ lease.holder # p =>
          (pc = "handoff" /\ p = Green) \/ p \in given]_deployVars

\* A deploy that was not promoted leaves no candidate behind: its child is gone
\* and, unless a lease lapsed or the lease was stranded, it is not the holder.
NothingLeftBehind ==
    (pc = "idle" /\ verdict \in {"rejected", "rolled-back"}) =>
        /\ proc[Green] \in {"absent", "gone"}
        /\ ~setup.lapses /\ ~stranded => lease.holder # Green

\* After a deploy that was not promoted, the process that was serving before it
\* serves again, or it died, or the next deploy has begun: with children that
\* stand by, a lease that outlives the health window and was not stranded.
BlueServesAgain ==
    \A p \in Procs :
        (/\ setup.standby /\ ~setup.lapses /\ pc = "idle" /\ from = p
         /\ verdict \in {"rejected", "rolled-back"} /\ ~stranded)
            ~> (proc[p] \in {"serving", "gone"} \/ pc # "idle")

\* "Any exception drives a SAFE STATE: blue keeps/regains the lease, green is
\* killed, verdict 'rejected'" (deploy.ts:47-48): after such a deploy the lease
\* is not green's.  It is, when it was stranded.
SafeStateReached ==
    (pc = "idle" /\ verdict = "rejected" /\ ~setup.lapses) => lease.holder # Green
=============================================================================
