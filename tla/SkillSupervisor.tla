--------------------------- MODULE SkillSupervisor ---------------------------
(* The life of one self-authored skill of claw: it is synthesized, passes the *)
(* verification gate, goes live as a canary, and is promoted, quarantined,    *)
(* restored and rolled back while invocations of it are under way; then the   *)
(* process restarts and loads it again from disk.                             *)
(*                                                                            *)
(* Modelled: src/claw/src/skills (author-skill.ts, gate.ts, loader.ts,        *)
(* registry.ts, dispatch.ts, supervisor.ts) and the order in which            *)
(* src/claw/src/index.ts boots them.  Everything between two awaits is one    *)
(* action.  A version is a source and what it behaves like; a build of it is  *)
(* filed under its manifest hash, which sources that differ inside a closure  *)
(* only have in common.  Left out: the channel and author checks, the text of *)
(* replies, which message a trigger matches, and a second rollback while one  *)
(* waits for its import.                                                      *)
EXTENDS Integers, Sequences, SequencesExt

CONSTANTS
    Versions,    \* the sources a synthesizer may write for this skill
    Manifests,   \* the manifest hashes
    Turns,       \* the agent runs that may dispatch it
    Authors,     \* the agent runs that may author it
    None,        \* no version, no manifest
    Setups       \* what the environment may do; chosen once

\* sources are what is synthesized, and manifest the manifest hash of each;
\* promoteAfter and quarantineAfter are the thresholds of the supervision
\* config; the others bound the run: the counters of a health record,
\* authorings, commands and restarts.
SetupType == [sources: SUBSET Versions, manifest: [Versions -> Manifests],
              promoteAfter: Nat \ {0}, quarantineAfter: Nat \ {0},
              maxCounter: Nat, authorings: Nat, commands: Nat, restarts: Nat]

ASSUME SkillAssumption ==
    None \notin Versions \union Manifests /\ Setups \subseteq SetupType

VARIABLES
    setup,
    row,         \* the registry row, or NoRow; active is a manifest hash
    versions,    \* the version rows, oldest first: one per manifest hash
    health,      \* the health record
    notices,     \* how many notices wait to be shown
    live,        \* the version in the live .ts and .js files, or None
    artifacts,   \* per manifest hash, the version whose copy is filed there
    staging,     \* the version in the staging directory, or None
    bound,       \* the version in the in-process skills map, or None
    invocation,  \* per turn: where it is between dispatch and health record
    authoring,   \* per author: the state of its authoring pipeline
    busy,        \* the authoring mutex is held
    rolling,     \* the rollback that waits for its import, or Still
    up,          \* the process serves
    left         \* what remains of the budgets of the setup

vars == <<setup, row, versions, health, notices, live, artifacts, staging,
          bound, invocation, authoring, busy, rolling, up, left>>

files   == <<live, artifacts, staging>>
registry == <<row, versions, health, notices>>
inProcess == <<bound, invocation, authoring, busy, rolling, up>>

Tiers == {"canary", "trusted", "quarantined"}
LiveTiers == {"canary", "trusted"}

NoRow == [tier |-> "none", source |-> None, active |-> None, enabled |-> FALSE]
Still == [to |-> None, source |-> None, module |-> None]
Resting == [phase |-> "idle", version |-> None, module |-> None]
Waiting == [phase |-> "idle", version |-> None]

Manifest(v) == setup.manifest[v]

-----------------------------------------------------------------------------

Init ==
    /\ setup \in Setups
    /\ row = NoRow /\ versions = <<>>
    /\ health = [failures |-> 0, successes |-> 0] /\ notices = 0
    /\ live = None /\ staging = None /\ bound = None
    /\ artifacts = [m \in Manifests |-> None]
    /\ invocation = [t \in Turns |-> Waiting]
    /\ authoring = [a \in Authors |-> Resting]
    /\ busy = FALSE /\ rolling = Still /\ up = TRUE
    /\ left = [authorings |-> setup.authorings, commands |-> setup.commands,
               restarts |-> setup.restarts]

-----------------------------------------------------------------------------
(* Dispatch and reactive supervision *)

\* The dispatcher skips a row that is disabled or quarantined and a row whose
\* behavior is not in the skills map.
Matches == row.enabled /\ row.tier # "quarantined" /\ bound # None

\* The dispatch node records the matched id; the route node runs it later.
Match(t) ==
    /\ up /\ invocation[t].phase = "idle" /\ Matches
    /\ invocation' = [invocation EXCEPT ![t] = [phase |-> "matched", version |-> None]]
    /\ UNCHANGED <<setup, registry, files, bound, authoring, busy, rolling, up, left>>

\* The run-skill node looks the behavior up again and starts it.
Run(t) ==
    /\ up /\ invocation[t].phase = "matched"
    /\ invocation' = [invocation EXCEPT ![t] =
         IF bound = None THEN Waiting ELSE [phase |-> "running", version |-> bound]]
    /\ UNCHANGED <<setup, registry, files, bound, authoring, busy, rolling, up, left>>

Recorded(success) ==
    [failures |-> IF success THEN 0 ELSE health.failures + 1,
     successes |-> health.successes + (IF success THEN 1 ELSE 0)]

OverThreshold(h) == h.failures >= setup.quarantineAfter

\* evaluateSupervision after a health record h: quarantine with a notice,
\* else promote a clean canary.
Supervised(h) ==
    IF row.tier \in LiveTiers /\ OverThreshold(h)
    THEN [tier |-> "quarantined", notices |-> notices + 1]
    ELSE [tier |-> IF /\ row.tier = "canary" /\ h.failures = 0
                      /\ h.successes >= setup.promoteAfter
                   THEN "trusted" ELSE row.tier,
          notices |-> notices]

\* The behavior ends; its outcome goes to the health record of the skill,
\* whichever version ran, and the skill is supervised in the same step.
Finish(t, success) ==
    LET h == Recorded(success) IN
    /\ up /\ invocation[t].phase = "running"
    /\ h.failures <= setup.maxCounter /\ h.successes <= setup.maxCounter
    /\ health' = h
    /\ row' = [row EXCEPT !.tier = Supervised(h).tier]
    /\ notices' = Supervised(h).notices
    /\ invocation' = [invocation EXCEPT ![t] = Waiting]
    /\ UNCHANGED <<setup, versions, files, bound, authoring, busy, rolling, up, left>>

\* The scheduled scan; there is one only when it is configured.
Scan ==
    /\ up /\ row.tier \in LiveTiers /\ OverThreshold(health)
    /\ row' = [row EXCEPT !.tier = "quarantined"]
    /\ notices' = notices + 1
    /\ UNCHANGED <<setup, versions, health, files, inProcess, left>>

-----------------------------------------------------------------------------
(* Authoring: synthesize, gate, promote and register *)

\* No mutex: each request is gated at once.
MayAlways == TRUE

\* A second request is refused while one is under way.
MayAuthor == ~busy

\* The synthesized source v is written to the staging directory of the skill.
StartAuthoring(a, v) ==
    /\ up /\ authoring[a].phase = "idle" /\ MayAuthor
    /\ v \in setup.sources /\ left.authorings > 0
    /\ busy' = TRUE
    /\ authoring' = [authoring EXCEPT ![a] =
         [phase |-> "gate", version |-> v, module |-> None]]
    /\ staging' = v
    /\ left' = [left EXCEPT !.authorings = @ - 1]
    /\ UNCHANGED <<setup, registry, live, artifacts, bound, invocation, rolling, up>>

\* The gate builds and imports what the staging directory holds.
BuildStaged(a) ==
    /\ up /\ authoring[a].phase = "gate"
    /\ authoring' = [authoring EXCEPT ![a].phase = "built", ![a].module = staging]
    /\ UNCHANGED <<setup, registry, files, bound, invocation, busy, rolling, up, left>>

\* A stage of the gate fails: nothing is registered.
RejectStaged(a) ==
    /\ up /\ authoring[a].phase = "gate"
    /\ authoring' = [authoring EXCEPT ![a] = Resting]
    /\ busy' = FALSE
    /\ UNCHANGED <<setup, registry, files, bound, invocation, rolling, up, left>>

\* A manifest hash that is on record keeps its place and takes the new source.
Recording(m, source) ==
    LET new == [manifest |-> m, source |-> source] IN
    IF \E i \in DOMAIN versions : versions[i].manifest = m
    THEN [i \in DOMAIN versions |->
             IF versions[i].manifest = m THEN new ELSE versions[i]]
    ELSE Append(versions, new)

\* promoteAndRegister: the staged files become the live ones and the copy filed
\* under the manifest hash of the build, the row is replaced by an enabled
\* canary of the source that was synthesized, and the imported module is bound.
Register(source, module) ==
    LET m == Manifest(module) IN
    /\ live' = staging
    /\ artifacts' = [artifacts EXCEPT ![m] = staging]
    /\ bound' = module
    /\ row' = [tier |-> "canary", source |-> source, active |-> m, enabled |-> TRUE]
    /\ versions' = Recording(m, source)

Activate(a) ==
    /\ up /\ authoring[a].phase = "built"
    /\ Register(authoring[a].version, authoring[a].module)
    /\ authoring' = [authoring EXCEPT ![a] = Resting]
    /\ busy' = FALSE
    /\ UNCHANGED <<setup, health, notices, staging, invocation, rolling, up, left>>

-----------------------------------------------------------------------------
(* The supervisor's commands *)

Command == up /\ left.commands > 0 /\ row # NoRow /\ left' = [left EXCEPT !.commands = @ - 1]

SetTier(tier) == row' = [row EXCEPT !.tier = tier]

Promote ==
    /\ Command /\ row.tier = "canary"
    /\ SetTier("trusted")
    /\ UNCHANGED <<setup, versions, health, notices, files, inProcess>>

Quarantine ==
    /\ Command
    /\ SetTier("quarantined")
    /\ UNCHANGED <<setup, versions, health, notices, files, inProcess>>

\* Restoring moves the tier and leaves the streak.
RestoreTierOnly ==
    /\ Command /\ row.tier = "quarantined"
    /\ SetTier("canary")
    /\ UNCHANGED <<setup, versions, health, notices, files, inProcess>>

\* Restoring also clears the streak, or the next scan would undo it.
Restore ==
    /\ Command /\ row.tier = "quarantined"
    /\ SetTier("canary")
    /\ health' = [health EXCEPT !.failures = 0]
    /\ UNCHANGED <<setup, versions, notices, files, inProcess>>

\* !skills and !why show the pending notices and mark them delivered.
DrainNotices ==
    /\ up /\ notices > 0
    /\ notices' = 0
    /\ UNCHANGED <<setup, row, versions, health, files, inProcess, left>>

\* Revocation by row update, until the skill is authored again.
Disable ==
    /\ Command /\ row.enabled
    /\ row' = [row EXCEPT !.enabled = FALSE]
    /\ UNCHANGED <<setup, versions, health, notices, files, inProcess>>

\* The version before the active one in the order of the version rows.
Predecessors ==
    LET at == {i \in DOMAIN versions : versions[i].manifest = row.active}
        from == IF at = {} THEN {Len(versions)} ELSE at
    IN {versions[i - 1] : i \in from \ {0, 1}}

\* The row and the versions are read, then the import of the old build is
\* awaited: anything may happen to the skill meanwhile.
StartRollback ==
    /\ Command /\ rolling = Still
    /\ \E prev \in Predecessors :
          rolling' = [to |-> prev.manifest, source |-> prev.source, module |-> None]
    /\ UNCHANGED <<setup, registry, files, bound, invocation, authoring, busy, up>>

\* The import reads what is filed under the manifest hash by then.
ReadBuild ==
    /\ up /\ rolling # Still /\ rolling.module = None
    /\ artifacts[rolling.to] # None
    /\ rolling' = [rolling EXCEPT !.module = artifacts[rolling.to]]
    /\ UNCHANGED <<setup, registry, files, bound, invocation, authoring, busy, up, left>>

Imported == up /\ rolling # Still /\ rolling.module # None

\* The pointer moves and the process keeps the behavior it had.
MovePointerOnly ==
    /\ Imported
    /\ row' = [row EXCEPT !.active = rolling.to, !.source = rolling.source]
    /\ rolling' = Still
    /\ UNCHANGED <<setup, versions, health, notices, files, bound, invocation, authoring, busy, up, left>>

\* The behavior and the pointer move together.  The live files stay.
FinishRollback ==
    /\ Imported
    /\ bound' = rolling.module
    /\ row' = [row EXCEPT !.active = rolling.to, !.source = rolling.source]
    /\ rolling' = Still
    /\ UNCHANGED <<setup, versions, health, notices, files, invocation, authoring, busy, up, left>>

\* The import fails: nothing is changed.
AbandonRollback ==
    /\ up /\ rolling # Still
    /\ rolling' = Still
    /\ UNCHANGED <<setup, registry, files, bound, invocation, authoring, busy, up, left>>

-----------------------------------------------------------------------------
(* Crash and boot *)

\* Everything in memory is gone.  A turn that had matched runs again from its
\* checkpoint (run-skill is repeatable).
Down ==
    /\ up /\ left.restarts > 0
    /\ up' = FALSE
    /\ bound' = None /\ busy' = FALSE /\ rolling' = Still
    /\ authoring' = [a \in Authors |-> Resting]
    /\ invocation' = [t \in Turns |->
         IF invocation[t].phase = "idle" THEN Waiting
                                         ELSE [phase |-> "matched", version |-> None]]
    /\ left' = [left EXCEPT !.restarts = @ - 1]
    /\ UNCHANGED <<setup, registry, staging>>

Crash == Down /\ UNCHANGED <<live, artifacts>>

\* The process dies inside an activation: the files are copied, the row is not
\* yet replaced.
CrashCopying(a) ==
    /\ Down
    /\ authoring[a].phase = "built"
    /\ live' = staging
    /\ artifacts' \in {artifacts,
                       [artifacts EXCEPT ![Manifest(authoring[a].module)] = staging]}

\* Only an enabled row is loaded again.
Reloadable == row # NoRow /\ row.enabled

\* The prior gate stands for a source that has not changed: same tier, same
\* manifest hash, and the live build.
Trusted == row.source = live

ReloadAsCanary ==
    /\ bound' = live
    /\ row' = [row EXCEPT !.enabled = TRUE, !.source = live, !.tier = "canary"]
    /\ versions' = Recording(row.active, live)
    /\ UNCHANGED <<live, artifacts, staging>>

FastReload ==
    /\ bound' = live
    /\ row' = [row EXCEPT !.enabled = TRUE, !.source = live]
    /\ versions' = Recording(row.active, live)
    /\ UNCHANGED <<live, artifacts, staging>>

\* The live source goes through the whole gate again.
Regate ==
    /\ staging' = live
    /\ live' = live /\ artifacts' = [artifacts EXCEPT ![Manifest(live)] = live]
    /\ bound' = live
    /\ row' = [tier |-> "canary", source |-> live, active |-> Manifest(live),
               enabled |-> TRUE]
    /\ versions' = Recording(Manifest(live), live)

\* The gate fails: the row stays and the skill is not loaded.
RegateFails ==
    /\ staging' = live
    /\ UNCHANGED <<bound, row, versions, live, artifacts>>

\* There is nothing to load, or its file or import is at fault.
Nothing == UNCHANGED <<bound, row, versions, live, artifacts, staging>>

Load ==
    \/ Nothing
    \/ Reloadable /\ Trusted /\ FastReload
    \/ Reloadable /\ ~Trusted /\ (Regate \/ RegateFails)

\* loadStagedSkills is awaited before anything else is started.
Boot ==
    /\ ~up /\ up' = TRUE
    /\ Load
    /\ UNCHANGED <<setup, health, notices, invocation, authoring, busy, rolling, left>>

-----------------------------------------------------------------------------

Supervise == Scan \/ Promote \/ Quarantine \/ Restore \/ DrainNotices \/ Disable

Next ==
    \/ \E t \in Turns : Match(t) \/ Run(t)
    \/ \E t \in Turns, success \in BOOLEAN : Finish(t, success)
    \/ \E a \in Authors, v \in Versions : StartAuthoring(a, v)
    \/ \E a \in Authors : BuildStaged(a) \/ RejectStaged(a) \/ Activate(a)
    \/ Supervise
    \/ StartRollback \/ ReadBuild \/ FinishRollback \/ AbandonRollback
    \/ Crash \/ (\E a \in Authors : CrashCopying(a)) \/ Boot

Spec == Init /\ [][Next]_vars

-----------------------------------------------------------------------------

\* The shape of the state.
TypeOK ==
    /\ setup \in SetupType
    /\ row = NoRow \/ (/\ row.tier \in Tiers
                       /\ row.source \in Versions /\ row.active \in Manifests
                       /\ row.enabled \in BOOLEAN)
    /\ versions \in Seq([manifest: Manifests, source: Versions])
    /\ health \in [failures: Nat, successes: Nat] /\ notices \in Nat
    /\ {live, staging, bound} \subseteq Versions \union {None}
    /\ artifacts \in [Manifests -> Versions \union {None}]
    /\ busy \in BOOLEAN /\ up \in BOOLEAN

\* No two of the sources have a manifest hash in common.
Distinct ==
    \A v, w \in Versions : Manifest(v) = Manifest(w) => v = w

\* What is bound is a build of the manifest hash the registry says is active,
\* which has a copy on disk to come back to: across authorings, rollbacks that
\* wait for an import, and restarts.  It is that copy, and the source whose
\* hash the row holds, unless sources share a manifest hash: then the copy and
\* the version row are replaced under a rollback (recordVersion,
\* promoteAndRegister).
BoundIsActive ==
    bound # None =>
        /\ row.active = Manifest(bound) /\ artifacts[row.active] # None
        /\ Distinct => row.source = bound /\ artifacts[row.active] = bound

\* No build is registered under the hash of a source it was not built from,
\* whoever else is authoring: the module that was imported, the source that
\* was synthesized and the files that were copied are one version.
GatedAsWritten ==
    \A a \in Authors :
       authoring[a].phase = "built" =>
           authoring[a].module = authoring[a].version /\ staging = authoring[a].version

Restarts == ~up /\ up'

\* As long as the live files are those of the active version, a restart changes
\* neither the tier nor the active version, and loads that version.
RestartIsFaithful ==
    [][Restarts /\ row.source = live =>
          /\ row'.tier = row.tier /\ row'.active = row.active
          /\ bound' \in {row.source, None}]_vars

\* A live skill over the failure threshold.
Failing == row.tier \in LiveTiers /\ OverThreshold(health)

\* The gate has passed a build of the skill: an authoring ends well, or a boot
\* finds another source than the registered one.
GatePasses ==
    \/ up' /\ \E a \in Authors : /\ authoring[a].phase = "built"
                               /\ authoring'[a].phase = "idle"
    \/ Restarts /\ row.source # live

\* Without any scan, no skill goes live over the failure threshold, whatever
\* invocations, commands, rollbacks and restarts come in between: it takes
\* another pass of the gate, which keeps the health record of the skill.
FailingStaysOut == [][~Failing /\ Failing' => GatePasses]_vars

\* Every gated build keeps its copy (claw README, Trust tiers).  The code files
\* a copy under the manifest hash, over that of another source that has it.
CopiesAreImmutable ==
    [][\A m \in Manifests : artifacts[m] # None => artifacts'[m] = artifacts[m]]_vars
=============================================================================
