---------------------------- MODULE MCDeployment ----------------------------
(* Two or three deploys in a row, so that a child that was promoted or rolled *)
(* back is the one a later deploy replaces.                                   *)
EXTENDS Deployment

Scripted == [signals |-> TRUE, standby |-> TRUE, probe |-> "serving",
             managed |-> TRUE, lapses |-> FALSE, faults |-> 2]

\* claw as its index.ts serves it: it never touches the ready file and exits
\* when it loses the lease.
Claw == [Scripted EXCEPT !.signals = FALSE, !.standby = FALSE, !.probe = "lease"]

\* The scripted child, with and without a handle on blue, a probe that only
\* asks for the lease, no probe, and leases that lapse; a child that exits; and claw.
MCSetups ==
    {[Scripted EXCEPT !.managed = m, !.probe = b, !.lapses = l] :
        m \in BOOLEAN, b \in {"serving", "lease", "none"}, l \in BOOLEAN}
    \union {[Scripted EXCEPT !.standby = FALSE], Claw}

\* Children that stand by, and leases that do not lapse.
ScriptedSetups == {Scripted}
=============================================================================
