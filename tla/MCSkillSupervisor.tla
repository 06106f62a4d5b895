-------------------------- MODULE MCSkillSupervisor --------------------------
(* Two turns and two authors; two sources that have a manifest hash each, or  *)
(* three of which two share one.  The thresholds are two, so that a streak    *)
(* and a promotion take more than one invocation.                             *)
EXTENDS SkillSupervisor

CONSTANTS v1, v2, v3, m1, m2, m3

MCVersions == {v1, v2, v3}
MCManifests == {m1, m2, m3}

Setup(sources, manifest, commands) ==
    [sources |-> sources, manifest |-> manifest,
     promoteAfter |-> 2, quarantineAfter |-> 2, maxCounter |-> 2,
     authorings |-> 3, commands |-> commands, restarts |-> 1]

OneEach == [v \in MCVersions |->
               CASE v = v1 -> m1 [] v = v2 -> m2 [] v = v3 -> m3]
TwoShare == [OneEach EXCEPT ![v3] = m1]

MCSetups == {Setup({v1, v2}, OneEach, 2), Setup(MCVersions, TwoShare, 1)}
=============================================================================
