------------------------ MODULE SkillSupervisorProofs ------------------------
(* Proofs about SkillSupervisor, for every set of versions, manifest hashes,  *)
(* turns, authors and setups: the state keeps its shape, what is bound is     *)
(* what the registry holds and the disk can give back, what is registered is  *)
(* what was gated, a restart over the live build changes nothing, and only    *)
(* the gate lets a failing skill live.                                        *)
EXTENDS SkillSupervisor, TLAPS

AnyVersion == Versions \union {None}
AnyManifest == Manifests \union {None}

VersionRows == [manifest: Manifests, source: Versions]

Phases == {"idle", "gate", "built"}

\* The shape of the state, the parts TypeOK leaves open included.
Types ==
    /\ setup \in SetupType
    /\ row \in [tier: Tiers \union {"none"}, source: AnyVersion,
                active: AnyManifest, enabled: BOOLEAN]
    /\ versions \in Seq(VersionRows)
    /\ health \in [failures: Nat, successes: Nat] /\ notices \in Nat
    /\ live \in AnyVersion /\ staging \in AnyVersion /\ bound \in AnyVersion
    /\ artifacts \in [Manifests -> AnyVersion]
    /\ invocation \in [Turns -> [phase: {"idle", "matched", "running"},
                                 version: AnyVersion]]
    /\ authoring \in [Authors -> [phase: Phases, version: AnyVersion,
                                  module: AnyVersion]]
    /\ busy \in BOOLEAN /\ up \in BOOLEAN
    /\ rolling \in [to: AnyManifest, source: AnyVersion, module: AnyVersion]

\* A copy is filed under its own manifest hash, and so is a version row.
Filed ==
    /\ \A m \in Manifests : artifacts[m] # None => Manifest(artifacts[m]) = m
    /\ \A i \in DOMAIN versions :
          Manifest(versions[i].source) = versions[i].manifest
    /\ \A i \in DOMAIN versions : artifacts[versions[i].manifest] # None

\* A registered skill has a tier, a source and its manifest hash, a copy that
\* is filed there, and live files of some version.
Registered ==
    row # NoRow => /\ row.tier \in Tiers /\ row.source \in Versions
                   /\ row.active = Manifest(row.source)
                   /\ artifacts[row.active] # None /\ live \in Versions

\* What is bound is a build of the active manifest hash of a registered skill.
Bound == bound # None => row # NoRow /\ row.active = Manifest(bound)

\* The mutex: whoever is authoring holds it, and nobody else is.
OneAuthor ==
    /\ \A a \in Authors : authoring[a].phase # "idle" => busy
    /\ \A a, b \in Authors :
          authoring[a].phase # "idle" /\ authoring[b].phase # "idle" => a = b

\* What is staged is what the author at the gate synthesized, and what it
\* imported once the gate has built it.
Staged ==
    \A a \in Authors :
       /\ authoring[a].phase # "idle" =>
             authoring[a].version \in Versions /\ staging = authoring[a].version
       /\ authoring[a].phase = "built" =>
             authoring[a].module = authoring[a].version

\* A rollback is of a registered skill, to a manifest hash, with a source and
\* a build that have it.
RollingKnown ==
    rolling # Still =>
        /\ row # NoRow /\ rolling.source \in Versions
        /\ rolling.to \in Manifests /\ rolling.to = Manifest(rolling.source)
        /\ artifacts[rolling.to] # None
        /\ rolling.module # None => Manifest(rolling.module) = rolling.to

\* A process that is down holds nothing.
DownIsEmpty ==
    ~up => /\ bound = None /\ ~busy /\ rolling = Still
           /\ \A a \in Authors : authoring[a].phase = "idle"

IInv == /\ Types /\ Filed /\ Registered /\ Bound /\ OneAuthor
        /\ Staged /\ RollingKnown /\ DownIsEmpty

-----------------------------------------------------------------------------
(* The helpers *)

\* Recording keeps the version rows a sequence of versions.
LEMMA RecordingType ==
    ASSUME versions \in Seq(VersionRows), NEW m \in Manifests, NEW v \in Versions
    PROVE  /\ Recording(m, v) \in Seq(VersionRows)
           /\ \A i \in DOMAIN Recording(m, v) :
                 \/ Recording(m, v)[i] = [manifest |-> m, source |-> v]
                 \/ i \in DOMAIN versions /\ Recording(m, v)[i] = versions[i]
<1> DEFINE new == [manifest |-> m, source |-> v]
           same == [i \in DOMAIN versions |->
                      IF versions[i].manifest = m THEN new ELSE versions[i]]
<1>1. new \in VersionRows
  BY DEF VersionRows
<1> HIDE DEF new
<1>2. DOMAIN versions = 1 .. Len(versions) /\ Len(versions) \in Nat
      /\ \A i \in DOMAIN versions : versions[i] \in VersionRows
  OBVIOUS
<1>3. same \in [1 .. Len(versions) -> VersionRows]
  BY <1>1, <1>2
<1>4. same \in Seq(VersionRows) /\ DOMAIN same = DOMAIN versions
  BY <1>2, <1>3
<1>5. /\ Append(versions, new) \in Seq(VersionRows)
      /\ \A i \in DOMAIN Append(versions, new) :
            \/ Append(versions, new)[i] = new
            \/ i \in DOMAIN versions /\ Append(versions, new)[i] = versions[i]
  BY <1>1, <1>2
<1>6. Recording(m, v) = same \/ Recording(m, v) = Append(versions, new)
  BY DEF Recording, new
<1>7. \A i \in DOMAIN same : same[i] = new \/ same[i] = versions[i]
  BY <1>4
<1> HIDE DEF same
<1> QED
  BY <1>4, <1>5, <1>6, <1>7 DEF new

\* A copy and a version row of a manifest hash that has come in are filed.
LEMMA FiledAnew ==
    ASSUME Types, Filed, setup' = setup, NEW v \in Versions, NEW w \in Versions,
           Manifest(v) = Manifest(w),
           artifacts' = [artifacts EXCEPT ![Manifest(v)] = v] \/ artifacts' = artifacts,
           artifacts'[Manifest(v)] # None,
           versions' = Recording(Manifest(v), w) \/ versions' = versions
    PROVE  Filed' /\ versions' \in Seq(VersionRows)
           /\ artifacts' \in [Manifests -> AnyVersion]
<1>1. Manifest(v) \in Manifests
  BY DEF Types, SetupType, Manifest
<1> DEFINE m == Manifest(v)
<1>2. \A u : Manifest(u)' = Manifest(u)
  BY DEF Manifest
<1>3. /\ versions' \in Seq(VersionRows)
      /\ \A i \in DOMAIN versions' :
            \/ versions'[i] = [manifest |-> m, source |-> w]
            \/ i \in DOMAIN versions /\ versions'[i] = versions[i]
  BY <1>1, RecordingType DEF Types
<1>4. /\ artifacts' \in [Manifests -> AnyVersion]
      /\ artifacts'[m] = v \/ artifacts'[m] = artifacts[m]
      /\ \A n \in Manifests : n # m => artifacts'[n] = artifacts[n]
  BY <1>1 DEF Types, AnyVersion
<1> HIDE DEF m
<1>5. m = Manifest(v) /\ m \in Manifests /\ artifacts'[m] # None
  BY <1>1 DEF m
<1>6. \A n \in Manifests : artifacts'[n] # None => Manifest(artifacts'[n]) = n
  BY <1>4, <1>5 DEF Filed
<1>7. \A i \in DOMAIN versions' : Manifest(versions'[i].source) = versions'[i].manifest
  BY <1>3, <1>5 DEF Filed
<1>8. \A i \in DOMAIN versions : versions[i].manifest \in Manifests
  <2>1. \A i \in DOMAIN versions : versions[i] \in VersionRows
    BY DEF Types
  <2> QED
    BY <2>1 DEF VersionRows
<1>9. \A i \in DOMAIN versions' : artifacts'[versions'[i].manifest] # None
  BY <1>3, <1>4, <1>5, <1>8 DEF Filed
<1> QED
  BY <1>2, <1>3, <1>4, <1>6, <1>7, <1>9 DEF Filed

\* What is filed stays filed.
LEMMA StaysFiled ==
    ASSUME Types, NEW v \in Versions,
           artifacts' = [artifacts EXCEPT ![Manifest(v)] = v]
    PROVE  /\ \A m \in Manifests : artifacts[m] # None => artifacts'[m] # None
           /\ artifacts'[Manifest(v)] = v /\ v # None /\ Manifest(v) \in Manifests
  BY SkillAssumption DEF Types, SetupType, Manifest

\* The predecessor of the active version is a version, when there is one.
LEMMA PredecessorType ==
    ASSUME versions \in Seq(VersionRows), NEW prev \in Predecessors
    PROVE  \E i \in DOMAIN versions : prev = versions[i]
<1> DEFINE at == {i \in DOMAIN versions : versions[i].manifest = row.active}
           from == IF at = {} THEN {Len(versions)} ELSE at
<1>1. PICK i \in from \ {0, 1} : prev = versions[i - 1]
  BY DEF Predecessors
<1>2. DOMAIN versions = 1 .. Len(versions) /\ Len(versions) \in Nat
  OBVIOUS
<1>3. i \in 0 .. Len(versions)
  <2>1. at \subseteq 1 .. Len(versions)
    BY <1>2
  <2>2. from \subseteq 0 .. Len(versions)
    BY <1>2, <2>1
  <2> QED
    BY <1>1, <2>2
<1>4. i # 0 /\ i # 1 /\ prev = versions[i - 1]
  BY <1>1
<1> HIDE DEF from
<1>5. i - 1 \in 1 .. Len(versions)
  BY <1>2, <1>3, <1>4
<1> QED
  BY <1>2, <1>4, <1>5

\* A health record stays a pair of counters, and supervision leaves a row that
\* has a live or quarantined tier with one.
LEMMA SupervisedType ==
    ASSUME Types, NEW success \in BOOLEAN
    PROVE  /\ Recorded(success) \in [failures: Nat, successes: Nat]
           /\ LET s == Supervised(Recorded(success)) IN
                 /\ s.tier \in Tiers \union {row.tier}
                 /\ s.notices \in Nat
<1>1. Recorded(success) \in [failures: Nat, successes: Nat]
  <2>1. health.failures \in Nat /\ health.successes \in Nat
    BY DEF Types
  <2> QED
    BY <2>1 DEF Recorded
<1>2. notices \in Nat
  BY DEF Types
<1> QED
  BY <1>1, <1>2 DEF Supervised, Tiers

-----------------------------------------------------------------------------
(* The invariant is inductive *)

\* Nothing is registered, bound or under way at the start.
LEMMA InitInv == Init => IInv
<1> SUFFICES ASSUME Init PROVE IInv
  OBVIOUS
<1>1. setup \in SetupType
  BY SkillAssumption DEF Init
<1>2. invocation \in [Turns -> [phase: {"idle", "matched", "running"},
                                version: AnyVersion]]
  BY DEF Init, Waiting, AnyVersion
<1>3. authoring \in [Authors -> [phase: Phases, version: AnyVersion,
                                 module: AnyVersion]]
  BY DEF Init, Resting, AnyVersion, Phases
<1>4. versions \in Seq(VersionRows)
  BY DEF Init
<1>5. row \in [tier: Tiers \union {"none"}, source: AnyVersion,
               active: AnyManifest, enabled: BOOLEAN]
  BY DEF Init, NoRow, AnyVersion, AnyManifest, Tiers
<1>6. Types
  BY <1>1, <1>2, <1>3, <1>4, <1>5 DEF Init, Types, AnyVersion, AnyManifest, Still
<1> QED
  BY <1>6 DEF Init, IInv, Filed, Registered, Bound, OneAuthor, Staged, RollingKnown,
              DownIsEmpty, Resting

\* A turn matches the skill or starts it: the registry, the files and the
\* pipeline are left alone.
LEMMA TurnStep ==
    ASSUME IInv, NEW t \in Turns, Match(t) \/ Run(t)
    PROVE  IInv'
<1> USE DEF IInv, registry, files
<1>1. UNCHANGED <<setup, row, versions, health, notices, live, artifacts,
                  staging, bound, authoring, busy, rolling, up>>
  BY DEF Match, Run
<1>2. invocation' \in [Turns -> [phase: {"idle", "matched", "running"},
                                 version: AnyVersion]]
  <2>1. /\ bound \in AnyVersion /\ None \in AnyVersion
        /\ invocation \in [Turns -> [phase: {"idle", "matched", "running"},
                                     version: AnyVersion]]
    BY DEF Types, AnyVersion
  <2> QED
    BY <2>1 DEF Match, Run, Waiting
<1>3. Types'
  BY <1>1, <1>2 DEF Types
<1> QED
  BY <1>1, <1>3 DEF Filed, Manifest, Registered, Bound, OneAuthor, Staged, RollingKnown, DownIsEmpty

\* The outcome of an invocation changes counters, notices and the tier only,
\* and a registered skill keeps a tier.
LEMMA FinishStep ==
    ASSUME IInv, NEW t \in Turns, NEW success \in BOOLEAN, Finish(t, success)
    PROVE  IInv'
<1> USE DEF IInv, files
<1>1. UNCHANGED <<setup, versions, live, artifacts, staging, bound, authoring,
                  busy, rolling, up>>
  BY DEF Finish
<1> DEFINE s == Supervised(Recorded(success))
<1>2. s.tier \in Tiers \union {row.tier} /\ s.notices \in Nat
  BY SupervisedType
<1>3. Recorded(success) \in [failures: Nat, successes: Nat]
  BY SupervisedType
<1>4. row' = [row EXCEPT !.tier = s.tier] /\ notices' = s.notices
      /\ health' = Recorded(success)
  BY DEF Finish
<1> HIDE DEF s
<1>5. row' \in [tier: Tiers \union {"none"}, source: AnyVersion,
                active: AnyManifest, enabled: BOOLEAN]
  BY <1>2, <1>4 DEF Types
<1>6. invocation' \in [Turns -> [phase: {"idle", "matched", "running"},
                                 version: AnyVersion]]
  BY DEF Types, Finish, Waiting, AnyVersion
<1>7. Types'
  BY <1>1, <1>2, <1>3, <1>4, <1>5, <1>6 DEF Types
<1>8. row'.active = row.active /\ row'.source = row.source
  BY <1>4 DEF Types
<1>9. Registered' /\ Bound' /\ RollingKnown'
  <2>1. CASE row = NoRow
    <3>1. bound = None /\ rolling = Still
      BY <2>1 DEF Bound, RollingKnown
    <3>2. s.tier \in Tiers \/ row' = NoRow
      BY <1>2, <1>4, <2>1 DEF NoRow
    <3>3. s.tier = "none"
      BY <2>1 DEF s, Supervised, NoRow, LiveTiers
    <3> QED
      BY <1>1, <3>1, <3>2, <3>3 DEF Registered, Bound, RollingKnown, Tiers
  <2>2. CASE row # NoRow
    <3>1. row.tier \in Tiers
      BY <2>2 DEF Registered
    <3>2. row'.tier \in Tiers
      BY <1>2, <1>4, <3>1 DEF Types
    <3>3. row' # NoRow
      BY <3>2 DEF NoRow, Tiers
    <3> QED
      BY <1>1, <1>8, <2>2, <3>2, <3>3 DEF Registered, Bound, RollingKnown, Manifest
  <2> QED
    BY <2>1, <2>2
<1> QED
  BY <1>1, <1>7, <1>9 DEF Filed, Manifest, OneAuthor, Staged, DownIsEmpty

\* What a supervisor does to the row: another tier, or disabled.
Retiered ==
    \/ \E tier \in Tiers : row' = [row EXCEPT !.tier = tier]
    \/ row' = [row EXCEPT !.enabled = FALSE]

\* The supervisor's scan and commands act on a registered skill and touch its
\* tier, its enabled flag, the streak and the notices.
LEMMA SuperviseStep ==
    ASSUME IInv, Supervise
    PROVE  IInv'
<1> USE DEF IInv
<1>1. UNCHANGED <<setup, versions, live, artifacts, staging, bound, invocation,
                  authoring, busy, rolling, up>>
  BY DEF Supervise, Scan, Promote, Quarantine, Restore, DrainNotices, Disable,
         files, inProcess
<1>2. health' \in [failures: Nat, successes: Nat] /\ notices' \in Nat
  <2>1. health \in [failures: Nat, successes: Nat] /\ notices \in Nat
    BY DEF Types
  <2> QED
    BY <2>1
    DEF Supervise, Scan, Promote, Quarantine, Restore, DrainNotices, Disable
<1>3. row' = row \/ (row # NoRow /\ Retiered)
  BY DEF Retiered, Tiers, NoRow, LiveTiers, Command, SetTier,
         Supervise, Scan, Promote, Quarantine, Restore, DrainNotices, Disable
<1>4. CASE row' = row
  <2>1. Types'
    BY <1>1, <1>2, <1>4 DEF Types
  <2> QED
    BY <1>1, <1>4, <2>1
    DEF Filed, Manifest, Registered, Bound, OneAuthor, Staged, RollingKnown, DownIsEmpty
<1>5. CASE row # NoRow /\ Retiered
  <2>1. row'.active = row.active /\ row'.source = row.source /\ row'.tier \in Tiers
    BY <1>5 DEF Retiered, Types, Registered
  <2>2. row' \in [tier: Tiers \union {"none"}, source: AnyVersion,
                  active: AnyManifest, enabled: BOOLEAN]
    BY <1>5 DEF Retiered, Types
  <2>3. row' # NoRow
    BY <2>1 DEF NoRow, Tiers
  <2>4. Types'
    BY <1>1, <1>2, <2>2 DEF Types
  <2> QED
    BY <1>1, <1>5, <2>1, <2>3, <2>4
    DEF Filed, Manifest, Registered, Bound, OneAuthor, Staged, RollingKnown, DownIsEmpty
<1> QED
  BY <1>3, <1>4, <1>5

\* An authoring begins only when no other is under way, so what it stages
\* replaces nothing that anybody is still gating.
LEMMA StartStep ==
    ASSUME IInv, NEW a \in Authors, NEW v \in Versions, StartAuthoring(a, v)
    PROVE  IInv'
<1> USE DEF IInv, registry
<1>1. UNCHANGED <<setup, row, versions, health, notices, live, artifacts,
                  bound, invocation, rolling, up>>
  BY DEF StartAuthoring
<1>2. busy' = TRUE /\ staging' = v /\ up
  BY DEF StartAuthoring
<1>3. authoring' = [authoring EXCEPT ![a] =
                      [phase |-> "gate", version |-> v, module |-> None]]
  BY DEF StartAuthoring
<1>4. \A b \in Authors : authoring[b].phase = "idle"
  BY DEF StartAuthoring, MayAuthor, OneAuthor
<1>5. authoring' \in [Authors -> [phase: Phases, version: AnyVersion,
                                  module: AnyVersion]]
  BY <1>3 DEF Types, Phases, AnyVersion
<1>6. Types'
  BY <1>1, <1>2, <1>5 DEF Types, AnyVersion
<1>7. \A b \in Authors : b # a => authoring'[b].phase = "idle"
  BY <1>3, <1>4 DEF Types
<1>8. authoring'[a] = [phase |-> "gate", version |-> v, module |-> None]
  BY <1>3 DEF Types
<1>9. OneAuthor' /\ Staged'
  BY <1>2, <1>7, <1>8 DEF OneAuthor, Staged
<1> QED
  BY <1>1, <1>2, <1>6, <1>9 DEF Filed, Manifest, Registered, Bound, RollingKnown, DownIsEmpty

\* The gate imports what is staged, which is what this author synthesized.
LEMMA BuildStep ==
    ASSUME IInv, NEW a \in Authors, BuildStaged(a)
    PROVE  IInv'
<1> USE DEF IInv, registry, files
<1>1. UNCHANGED <<setup, row, versions, health, notices, live, artifacts,
                  staging, bound, invocation, busy, rolling, up>>
  BY DEF BuildStaged
<1>2. authoring[a].phase = "gate" /\ up
  BY DEF BuildStaged
<1>3. authoring' = [authoring EXCEPT ![a].phase = "built", ![a].module = staging]
  BY DEF BuildStaged
<1>4. staging \in AnyVersion
  BY DEF Types
<1>5. authoring' \in [Authors -> [phase: Phases, version: AnyVersion,
                                  module: AnyVersion]]
  BY <1>3, <1>4 DEF Types, Phases
<1>6. Types'
  BY <1>1, <1>5 DEF Types
<1>7. \A b \in Authors : b # a => authoring'[b] = authoring[b]
  BY <1>3 DEF Types
<1>8. /\ authoring'[a].phase = "built" /\ authoring'[a].module = staging
      /\ authoring'[a].version = authoring[a].version
  BY <1>3 DEF Types
<1>9. OneAuthor' /\ Staged'
  BY <1>1, <1>2, <1>7, <1>8 DEF OneAuthor, Staged
<1> QED
  BY <1>1, <1>2, <1>6, <1>9 DEF Filed, Manifest, Registered, Bound, RollingKnown, DownIsEmpty

\* When an author is done nobody is authoring.
LEMMA DoneAuthoring ==
    ASSUME Types, OneAuthor, Staged, NEW a \in Authors,
           authoring[a].phase # "idle",
           authoring' = [authoring EXCEPT ![a] = Resting]
    PROVE  /\ \A b \in Authors : authoring'[b].phase = "idle"
           /\ authoring' \in [Authors -> [phase: Phases, version: AnyVersion,
                                          module: AnyVersion]]
           /\ OneAuthor' /\ Staged'
<1>1. authoring' \in [Authors -> [phase: Phases, version: AnyVersion,
                                  module: AnyVersion]]
  BY DEF Types, Resting, Phases, AnyVersion
<1>2. \A b \in Authors : authoring'[b].phase = "idle"
  BY DEF OneAuthor, Types, Resting
<1> QED
  BY <1>1, <1>2 DEF OneAuthor, Staged

\* A failed gate frees the mutex and registers nothing.
LEMMA RejectStep ==
    ASSUME IInv, NEW a \in Authors, RejectStaged(a)
    PROVE  IInv'
<1> USE DEF IInv, registry, files
<1>1. UNCHANGED <<setup, row, versions, health, notices, live, artifacts,
                  staging, bound, invocation, rolling, up>>
  BY DEF RejectStaged
<1>2. busy' = FALSE /\ up /\ authoring[a].phase = "gate"
  BY DEF RejectStaged
<1>3. authoring' = [authoring EXCEPT ![a] = Resting]
  BY DEF RejectStaged
<1>4. /\ authoring' \in [Authors -> [phase: Phases, version: AnyVersion,
                                     module: AnyVersion]]
      /\ OneAuthor' /\ Staged'
  BY <1>2, <1>3, DoneAuthoring
<1>5. Types'
  BY <1>1, <1>2, <1>4 DEF Types
<1> QED
  BY <1>1, <1>2, <1>4, <1>5 DEF Filed, Manifest, Registered, Bound, RollingKnown, DownIsEmpty

\* An activation registers what was gated: the module imported, the source
\* synthesized and the files copied are one version.
LEMMA ActivateStep ==
    ASSUME IInv, NEW a \in Authors, Activate(a)
    PROVE  IInv'
<1> USE DEF IInv
<1>1. UNCHANGED <<setup, health, notices, staging, invocation, rolling, up>>
  BY DEF Activate
<1>2. busy' = FALSE /\ up /\ authoring[a].phase = "built"
  BY DEF Activate
<1>3. authoring' = [authoring EXCEPT ![a] = Resting]
  BY DEF Activate
<1>4. /\ authoring' \in [Authors -> [phase: Phases, version: AnyVersion,
                                     module: AnyVersion]]
      /\ OneAuthor' /\ Staged'
  BY <1>2, <1>3, DoneAuthoring
<1>5. PICK v \in Versions : /\ staging = v /\ authoring[a].version = v
                            /\ authoring[a].module = v
  BY <1>2 DEF Staged
<1>6. /\ live' = v /\ artifacts' = [artifacts EXCEPT ![Manifest(v)] = v] /\ bound' = v
      /\ row' = [tier |-> "canary", source |-> v, active |-> Manifest(v),
                 enabled |-> TRUE]
      /\ versions' = Recording(Manifest(v), v)
  BY <1>5 DEF Activate, Register
<1>7. /\ \A m \in Manifests : artifacts[m] # None => artifacts'[m] # None
      /\ artifacts'[Manifest(v)] # None /\ Manifest(v) \in Manifests
  BY <1>6, StaysFiled
<1>8. /\ Filed' /\ versions' \in Seq(VersionRows)
      /\ artifacts' \in [Manifests -> AnyVersion]
  BY <1>1, <1>6, <1>7, FiledAnew
<1>9. row' \in [tier: Tiers \union {"none"}, source: AnyVersion,
                active: AnyManifest, enabled: BOOLEAN]
  BY <1>6, <1>7 DEF Tiers, AnyVersion, AnyManifest
<1>10. Types'
  BY <1>1, <1>2, <1>4, <1>6, <1>8, <1>9 DEF Types, AnyVersion
<1>11. row' # NoRow
  BY <1>6 DEF NoRow
<1>12. Manifest(v)' = Manifest(v) /\ Manifest(rolling.source)' = Manifest(rolling.source)
       /\ Manifest(rolling.module)' = Manifest(rolling.module)
  BY <1>1 DEF Manifest
<1>13. Registered' /\ Bound'
  BY <1>1, <1>6, <1>7, <1>11 DEF Registered, Bound, Tiers, Manifest
<1>14. RollingKnown'
  BY <1>1, <1>7, <1>11, <1>12 DEF RollingKnown
<1> QED
  BY <1>1, <1>2, <1>4, <1>8, <1>10, <1>13, <1>14 DEF DownIsEmpty

\* A rollback starts from a registered skill, to its predecessor.
LEMMA StartRollbackStep ==
    ASSUME IInv, StartRollback
    PROVE  IInv'
<1> USE DEF IInv, registry, files
<1>1. UNCHANGED <<setup, row, versions, health, notices, live, artifacts,
                  staging, bound, invocation, authoring, busy, up>>
  BY DEF StartRollback
<1>2. up /\ row # NoRow
  BY DEF StartRollback, Command
<1>3. PICK prev \in Predecessors :
        rolling' = [to |-> prev.manifest, source |-> prev.source, module |-> None]
  BY DEF StartRollback
<1>4. PICK i \in DOMAIN versions : prev = versions[i]
  BY PredecessorType DEF Types
<1>5. /\ prev \in VersionRows /\ Manifest(prev.source) = prev.manifest
      /\ artifacts[prev.manifest] # None
  BY <1>4 DEF Types, Filed
<1>6. rolling' \in [to: AnyManifest, source: AnyVersion, module: AnyVersion]
  BY <1>3, <1>5 DEF VersionRows, AnyVersion, AnyManifest
<1>7. Types'
  BY <1>1, <1>6 DEF Types
<1>8. RollingKnown'
  BY <1>1, <1>2, <1>3, <1>5 DEF RollingKnown, VersionRows, Manifest
<1> QED
  BY <1>1, <1>2, <1>7, <1>8
  DEF Filed, Manifest, Registered, Bound, OneAuthor, Staged, DownIsEmpty

\* The import finds a build of the manifest hash it is filed under.
LEMMA ReadBuildStep ==
    ASSUME IInv, ReadBuild
    PROVE  IInv'
<1> USE DEF IInv, registry, files
<1>1. UNCHANGED <<setup, row, versions, health, notices, live, artifacts,
                  staging, bound, invocation, authoring, busy, up>>
  BY DEF ReadBuild
<1> DEFINE b == artifacts[rolling.to]
<1>2. rolling' = [rolling EXCEPT !.module = b] /\ up /\ rolling # Still
  BY DEF ReadBuild
<1>3. rolling.to \in Manifests /\ b \in AnyVersion
      /\ (b # None => Manifest(b) = rolling.to)
  BY <1>2 DEF RollingKnown, Types, Filed
<1> HIDE DEF b
<1>4. /\ rolling'.to = rolling.to /\ rolling'.source = rolling.source
      /\ rolling'.module = b
      /\ rolling' \in [to: AnyManifest, source: AnyVersion, module: AnyVersion]
  BY <1>2, <1>3 DEF Types
<1>5. Types'
  BY <1>1, <1>4 DEF Types
<1>6. RollingKnown'
  BY <1>1, <1>2, <1>3, <1>4 DEF RollingKnown, Manifest
<1> QED
  BY <1>1, <1>2, <1>5, <1>6
  DEF Filed, Manifest, Registered, Bound, OneAuthor, Staged, DownIsEmpty

\* A rollback that finds the copy moves the behavior and the row together.
LEMMA FinishRollbackStep ==
    ASSUME IInv, FinishRollback
    PROVE  IInv'
<1> USE DEF IInv, files
<1>1. UNCHANGED <<setup, versions, health, notices, live, artifacts, staging,
                  invocation, authoring, busy, up>>
  BY DEF FinishRollback
<1>2. /\ bound' = rolling.module /\ rolling' = Still /\ up
      /\ row' = [row EXCEPT !.active = rolling.to, !.source = rolling.source]
      /\ rolling # Still /\ rolling.module # None
  BY DEF FinishRollback, Imported
<1>3. /\ rolling.source \in Versions /\ row # NoRow /\ rolling.to \in Manifests
      /\ rolling.to = Manifest(rolling.source) /\ artifacts[rolling.to] # None
      /\ Manifest(rolling.module) = rolling.to
  BY <1>2 DEF RollingKnown
<1>4. row' \in [tier: Tiers \union {"none"}, source: AnyVersion,
                active: AnyManifest, enabled: BOOLEAN]
  BY <1>2, <1>3 DEF Types, AnyVersion, AnyManifest
<1>5. Types'
  BY <1>1, <1>2, <1>3, <1>4 DEF Types, AnyVersion, AnyManifest, Still
<1>6. /\ row'.tier = row.tier /\ row'.active = rolling.to
      /\ row'.source = rolling.source /\ row.tier \in Tiers
  BY <1>2, <1>3 DEF Types, Registered
<1>7. row' # NoRow
  BY <1>6 DEF NoRow, Tiers
<1>8. Registered' /\ Bound'
  BY <1>1, <1>2, <1>3, <1>6, <1>7 DEF Registered, Bound, Manifest
<1>9. RollingKnown'
  BY <1>2 DEF RollingKnown
<1> QED
  BY <1>1, <1>2, <1>5, <1>8, <1>9 DEF Filed, Manifest, OneAuthor, Staged, DownIsEmpty

\* A rollback whose import fails changes nothing.
LEMMA AbandonRollbackStep ==
    ASSUME IInv, AbandonRollback
    PROVE  IInv'
<1> USE DEF IInv, registry, files
<1>1. UNCHANGED <<setup, row, versions, health, notices, live, artifacts,
                  staging, bound, invocation, authoring, busy, up>>
  BY DEF AbandonRollback
<1>2. rolling' = Still /\ up
  BY DEF AbandonRollback
<1>3. Types'
  BY <1>1, <1>2 DEF Types, Still, AnyVersion, AnyManifest
<1> QED
  BY <1>1, <1>2, <1>3
  DEF Filed, Manifest, Registered, Bound, OneAuthor, Staged, RollingKnown, DownIsEmpty

\* A crash empties the process.  One in the middle of an activation leaves the
\* live files, or the copy too, of a version the row does not name.
LEMMA DownStep ==
    ASSUME IInv, Crash \/ \E a \in Authors : CrashCopying(a)
    PROVE  IInv'
<1> USE DEF IInv
<1>1. Down
  BY DEF Crash, CrashCopying
<1>2. UNCHANGED <<setup, row, versions, health, notices, staging>>
  BY <1>1 DEF Down, registry
<1>3. ~up' /\ bound' = None /\ busy' = FALSE /\ rolling' = Still
  BY <1>1 DEF Down
<1>4. authoring' = [a \in Authors |-> Resting]
  BY <1>1 DEF Down
<1>5. invocation' \in [Turns -> [phase: {"idle", "matched", "running"},
                                 version: AnyVersion]]
  BY <1>1 DEF Down, Waiting, AnyVersion
<1>6. authoring' \in [Authors -> [phase: Phases, version: AnyVersion,
                                  module: AnyVersion]]
  BY <1>4 DEF Resting, Phases, AnyVersion
<1>7. /\ Filed' /\ artifacts' \in [Manifests -> AnyVersion]
      /\ \A m \in Manifests : artifacts[m] # None => artifacts'[m] # None
      /\ live' \in AnyVersion /\ (live \in Versions => live' \in Versions)
  <2>1. CASE Crash
    BY <1>2, <2>1 DEF Crash, Types, Filed, Manifest
  <2>2. CASE \E a \in Authors : CrashCopying(a)
    <3>1. PICK a \in Authors : CrashCopying(a)
      BY <2>2
    <3>2. PICK v \in Versions : staging = v /\ authoring[a].module = v
      BY <3>1 DEF CrashCopying, Staged
    <3>3. live' = v
      BY <3>1, <3>2 DEF CrashCopying
    <3>4. CASE artifacts' = artifacts
      BY <1>2, <3>3, <3>4 DEF Types, Filed, Manifest, AnyVersion
    <3>5. CASE artifacts' = [artifacts EXCEPT ![Manifest(v)] = v]
      <4>1. /\ \A m \in Manifests : artifacts[m] # None => artifacts'[m] # None
            /\ artifacts'[Manifest(v)] # None
        BY <3>5, StaysFiled
      <4>2. Filed' /\ artifacts' \in [Manifests -> AnyVersion]
        BY <1>2, <3>5, <4>1, FiledAnew
      <4> QED
        BY <3>3, <4>1, <4>2 DEF AnyVersion
    <3> QED
      BY <3>1, <3>2, <3>4, <3>5 DEF CrashCopying
  <2> QED
    BY <2>1, <2>2
<1>8. up' = FALSE
  BY <1>1 DEF Down
<1>9. Types'
  BY <1>2, <1>3, <1>5, <1>6, <1>7, <1>8 DEF Types, Still, AnyVersion, AnyManifest
<1>10. Registered'
  <2>1. row # NoRow => row.active \in Manifests
    BY DEF Registered, Types, SetupType, Manifest
  <2> QED
    BY <1>2, <1>7, <2>1 DEF Registered, Manifest
<1>11. \A a \in Authors : authoring'[a].phase = "idle"
  BY <1>4 DEF Resting
<1> QED
  BY <1>3, <1>7, <1>9, <1>10, <1>11 DEF Bound, OneAuthor, Staged, RollingKnown, DownIsEmpty

\* A boot binds nothing, or the live build of the version the row names, or a
\* live build that went through the whole gate again.
LEMMA BootStep ==
    ASSUME IInv, Boot
    PROVE  IInv'
<1> USE DEF IInv
<1>1. UNCHANGED <<setup, health, notices, invocation, authoring, busy, rolling>>
  BY DEF Boot
<1>2. /\ up' = TRUE /\ ~busy /\ bound = None /\ rolling = Still
      /\ \A a \in Authors : authoring[a].phase = "idle"
  BY DEF Boot, DownIsEmpty
<1>3. OneAuthor' /\ Staged' /\ RollingKnown' /\ DownIsEmpty'
  BY <1>1, <1>2 DEF OneAuthor, Staged, RollingKnown, DownIsEmpty
<1>12. \A u : Manifest(u)' = Manifest(u)
  BY <1>1 DEF Manifest
<1>4. CASE Nothing \/ (Reloadable /\ RegateFails)
  <2>1. UNCHANGED <<row, versions, live, artifacts, bound>>
    BY <1>4 DEF Nothing, RegateFails
  <2>2. staging' \in AnyVersion
    BY <1>4 DEF Nothing, RegateFails, Types
  <2>3. Types'
    BY <1>1, <1>2, <2>1, <2>2 DEF Types
  <2> QED
    BY <1>1, <1>3, <2>1, <2>3 DEF Filed, Registered, Bound, Manifest
<1>5. CASE Reloadable /\ Trusted /\ FastReload
  <2>1. row # NoRow /\ row.source = live
    BY <1>5 DEF Reloadable, Trusted
  <2>2. /\ row.active = Manifest(live) /\ live \in Versions
        /\ row.tier \in Tiers /\ artifacts[Manifest(live)] # None
    BY <2>1 DEF Registered
  <2>3. /\ bound' = live /\ versions' = Recording(Manifest(live), live)
        /\ row' = [row EXCEPT !.enabled = TRUE, !.source = live]
        /\ UNCHANGED <<live, artifacts, staging>>
    BY <1>5, <2>2 DEF FastReload
  <2>4. Filed' /\ versions' \in Seq(VersionRows)
    BY <1>1, <2>2, <2>3, FiledAnew
  <2>5. row' \in [tier: Tiers \union {"none"}, source: AnyVersion,
                  active: AnyManifest, enabled: BOOLEAN]
    BY <2>2, <2>3 DEF Types, AnyVersion
  <2>6. row'.tier = row.tier /\ row'.active = Manifest(live) /\ row'.source = live
    BY <2>2, <2>3 DEF Types
  <2>7. row' # NoRow
    BY <2>2, <2>6 DEF NoRow, Tiers
  <2>8. Types'
    BY <1>1, <1>2, <2>2, <2>3, <2>4, <2>5 DEF Types, AnyVersion
  <2>9. Registered' /\ Bound'
    BY <1>12, <2>2, <2>3, <2>6, <2>7 DEF Registered, Bound
  <2> QED
    BY <1>3, <2>4, <2>8, <2>9
<1>6. CASE Reloadable /\ Regate
  <2>1. live \in Versions
    BY <1>6 DEF Reloadable, Registered
  <2>2. /\ staging' = live /\ live' = live
        /\ artifacts' = [artifacts EXCEPT ![Manifest(live)] = live]
        /\ bound' = live /\ versions' = Recording(Manifest(live), live)
        /\ row' = [tier |-> "canary", source |-> live, active |-> Manifest(live),
                   enabled |-> TRUE]
    BY <1>6 DEF Regate
  <2>3. artifacts'[Manifest(live)] # None /\ Manifest(live) \in Manifests
    BY <2>1, <2>2, StaysFiled
  <2>4. /\ Filed' /\ versions' \in Seq(VersionRows)
        /\ artifacts' \in [Manifests -> AnyVersion]
    BY <1>1, <2>1, <2>2, <2>3, FiledAnew
  <2>5. row' \in [tier: Tiers \union {"none"}, source: AnyVersion,
                  active: AnyManifest, enabled: BOOLEAN]
    BY <2>1, <2>2, <2>3 DEF Tiers, AnyVersion, AnyManifest
  <2>6. row' # NoRow
    BY <2>2 DEF NoRow
  <2>7. Types'
    BY <1>1, <1>2, <2>1, <2>2, <2>4, <2>5 DEF Types, AnyVersion
  <2>8. Registered' /\ Bound'
    BY <1>12, <2>1, <2>2, <2>3, <2>6 DEF Registered, Bound, Tiers
  <2> QED
    BY <1>3, <2>4, <2>7, <2>8
<1> QED
  BY <1>4, <1>5, <1>6 DEF Boot, Load

\* Every step of the supervisor, the authors and the process keeps the
\* invariant.
LEMMA NextInv == IInv /\ [Next]_vars => IInv'
<1> SUFFICES ASSUME IInv, [Next]_vars PROVE IInv'
  OBVIOUS
<1>1. ASSUME NEW t \in Turns, Match(t) \/ Run(t) PROVE IInv'
  BY <1>1, TurnStep
<1>2. ASSUME NEW t \in Turns, NEW success \in BOOLEAN, Finish(t, success)
      PROVE IInv'
  BY <1>2, FinishStep
<1>3. ASSUME NEW a \in Authors, NEW v \in Versions, StartAuthoring(a, v)
      PROVE IInv'
  BY <1>3, StartStep
<1>4. ASSUME NEW a \in Authors, BuildStaged(a) \/ RejectStaged(a) \/ Activate(a)
      PROVE IInv'
  BY <1>4, BuildStep, RejectStep, ActivateStep
<1>5. CASE Supervise
  BY <1>5, SuperviseStep
<1>6. CASE StartRollback \/ ReadBuild \/ FinishRollback \/ AbandonRollback
  BY <1>6, StartRollbackStep, ReadBuildStep, FinishRollbackStep, AbandonRollbackStep
<1>7. CASE Crash \/ \E a \in Authors : CrashCopying(a)
  BY <1>7, DownStep
<1>8. CASE Boot
  BY <1>8, BootStep
<1>9. CASE UNCHANGED vars
  BY <1>9 DEF vars, registry, files, inProcess, IInv, Types, Filed, Manifest, Registered, Bound,
              OneAuthor, Staged, RollingKnown, DownIsEmpty
<1> QED
  BY <1>1, <1>2, <1>3, <1>4, <1>5, <1>6, <1>7, <1>8, <1>9 DEF Next

-----------------------------------------------------------------------------
(* What follows from it *)

\* The inductive invariant holds in every state of every run.
THEOREM SkillInvariant == Spec => []IInv
  BY InitInv, NextInv, PTL DEF Spec

\* Across dispatch, authoring, supervision, rollbacks, crashes and boots the
\* state keeps the shape TypeOK gives it.
THEOREM SkillTypeCorrect == Spec => []TypeOK
<1>1. IInv => TypeOK
  BY DEF IInv, Types, Registered, TypeOK, AnyVersion, AnyManifest, VersionRows,
         SetupType, Manifest
<1> QED
  BY <1>1, SkillInvariant, PTL

\* What is bound is a build of the manifest hash the registry says is active,
\* which has a copy on disk to come back to, for every number of authorings,
\* rollbacks and restarts; when no two sources share a manifest hash it is that
\* copy and the source whose hash the row holds.
THEOREM SkillBoundIsActive == Spec => []BoundIsActive
<1>1. IInv => BoundIsActive
  <2> SUFFICES ASSUME IInv, bound # None PROVE BoundIsActive
    BY DEF BoundIsActive
  <2>1. /\ row.active = Manifest(bound) /\ row.active = Manifest(row.source)
        /\ artifacts[row.active] # None /\ row.source \in Versions
        /\ bound \in Versions
    BY DEF IInv, Bound, Registered, Types, AnyVersion
  <2>2. row.active \in Manifests
    BY <2>1 DEF IInv, Types, SetupType, Manifest
  <2>3. /\ Manifest(artifacts[row.active]) = row.active
        /\ artifacts[row.active] \in Versions
    BY <2>1, <2>2 DEF IInv, Filed, Types, AnyVersion
  <2> QED
    BY <2>1, <2>3 DEF BoundIsActive, Distinct
<1> QED
  BY <1>1, SkillInvariant, PTL

\* No build is registered under the hash of a source it was not built from,
\* however many authors ask: the authoring mutex keeps the staging directory
\* from changing under a gate.
THEOREM SkillGatedAsWritten == Spec => []GatedAsWritten
<1>1. IInv => GatedAsWritten
  BY DEF IInv, Staged, GatedAsWritten
<1> QED
  BY <1>1, SkillInvariant, PTL

\* A restart over live files that are those of the active version keeps the
\* tier and the active version and loads that version or nothing.
THEOREM SkillRestartIsFaithful == Spec => RestartIsFaithful
<1> DEFINE Kept == Restarts /\ row.source = live =>
                     /\ row'.tier = row.tier /\ row'.active = row.active
                     /\ bound' \in {row.source, None}
<1>1. IInv /\ [Next]_vars => [Kept]_vars
  <2> SUFFICES ASSUME IInv, Next, Restarts, row.source = live
               PROVE  /\ row'.tier = row.tier /\ row'.active = row.active
                      /\ bound' \in {row.source, None}
    OBVIOUS
  <2>1. Boot
    <3>1. ASSUME NEW t \in Turns, NEW success \in BOOLEAN, Finish(t, success)
          PROVE  FALSE
      BY <3>1 DEF Finish, Restarts
    <3>2. ASSUME NEW a \in Authors, NEW v \in Versions, StartAuthoring(a, v)
          PROVE  FALSE
      BY <3>2 DEF StartAuthoring, Restarts
    <3>3. ~Supervise
      BY DEF Supervise, Scan, Promote, Quarantine, Restore, DrainNotices,
             Disable, Command, Restarts
    <3>4. ~(StartRollback \/ ReadBuild \/ FinishRollback \/ AbandonRollback \/ Crash)
      BY DEF StartRollback, ReadBuild, FinishRollback, Imported, AbandonRollback,
             Crash, Down, Command, Restarts
    <3>5. ASSUME NEW a \in Authors,
                 BuildStaged(a) \/ RejectStaged(a) \/ Activate(a)
                 \/ CrashCopying(a)
          PROVE  FALSE
      BY <3>5 DEF BuildStaged, RejectStaged, Activate, CrashCopying, Down, Restarts
    <3>6. ASSUME NEW t \in Turns, Match(t) \/ Run(t)
          PROVE  FALSE
      BY <3>6 DEF Match, Run, Restarts
    <3> QED
      BY <3>1, <3>2, <3>3, <3>4, <3>5, <3>6 DEF Next
  <2>2. CASE Nothing
    BY <2>1, <2>2 DEF Nothing, Boot, IInv, DownIsEmpty
  <2>3. CASE Reloadable /\ FastReload
    <3>1. row' = [row EXCEPT !.enabled = TRUE, !.source = live] /\ bound' = live
      BY <2>3 DEF FastReload
    <3> QED
      BY <3>1 DEF IInv, Types
  <2> QED
    BY <2>1, <2>2, <2>3 DEF Boot, Load, Trusted
<1> QED
  BY <1>1, SkillInvariant, PTL DEF Spec, RestartIsFaithful

\* No skill goes live over the failure threshold but through the gate: not by
\* an invocation, a command, a rollback or a restart, and without any scan.
THEOREM SkillFailingStaysOut == Spec => FailingStaysOut
<1> DEFINE Out == ~Failing /\ Failing' => GatePasses
<1>1. IInv /\ [Next]_vars => [Out]_vars
  <2> SUFFICES ASSUME IInv, Next, ~Failing PROVE Failing' => GatePasses
    OBVIOUS
  <2>1. ASSUME UNCHANGED <<setup, row, health>> PROVE ~Failing'
    BY <2>1 DEF Failing, OverThreshold
  <2>2. ASSUME NEW t \in Turns, Match(t) \/ Run(t) PROVE ~Failing'
    BY <2>1, <2>2 DEF Match, Run, registry
  <2>3. ASSUME NEW t \in Turns, NEW success \in BOOLEAN, Finish(t, success)
        PROVE  ~Failing'
    <3> DEFINE h == Recorded(success)
    <3>1. /\ row' = [row EXCEPT !.tier = Supervised(h).tier]
          /\ health' = h /\ setup' = setup
      BY <2>3 DEF Finish
    <3> HIDE DEF h
    <3>2. row'.tier = Supervised(h).tier
      BY <3>1 DEF IInv, Types
    <3>3. Supervised(h).tier \in LiveTiers => ~OverThreshold(h)
      BY DEF Supervised, LiveTiers
    <3> QED
      BY <3>1, <3>2, <3>3 DEF Failing, OverThreshold
  <2>4. ASSUME NEW a \in Authors, NEW v \in Versions, StartAuthoring(a, v)
        PROVE  ~Failing'
    BY <2>1, <2>4 DEF StartAuthoring, registry
  <2>5. ASSUME NEW a \in Authors, BuildStaged(a) \/ RejectStaged(a) PROVE ~Failing'
    BY <2>1, <2>5 DEF BuildStaged, RejectStaged, registry
  <2>6. ASSUME NEW a \in Authors, Activate(a) PROVE GatePasses
    BY <2>6 DEF Activate, GatePasses, IInv, Types, Resting
  <2>7. ASSUME Supervise PROVE ~Failing'
    <3>1. setup \in SetupType /\ row \in [tier: Tiers \union {"none"},
               source: AnyVersion, active: AnyManifest, enabled: BOOLEAN]
          /\ health \in [failures: Nat, successes: Nat]
      BY DEF IInv, Types
    <3>2. CASE Scan \/ Quarantine
      BY <3>1, <3>2 DEF Scan, Quarantine, SetTier, Failing, LiveTiers
    <3>3. CASE Promote
      BY <3>1, <3>3 DEF Promote, SetTier, Failing, OverThreshold, LiveTiers
    <3>4. CASE Restore
      BY <3>1, <3>4 DEF Restore, Failing, OverThreshold, SetupType
    <3>5. CASE DrainNotices \/ Disable
      BY <3>1, <3>5 DEF DrainNotices, Disable, Failing, OverThreshold
    <3> QED
      BY <2>7, <3>2, <3>3, <3>4, <3>5 DEF Supervise
  <2>8. ASSUME StartRollback \/ ReadBuild \/ AbandonRollback PROVE ~Failing'
    BY <2>1, <2>8 DEF StartRollback, ReadBuild, AbandonRollback, registry
  <2>9. ASSUME FinishRollback PROVE ~Failing'
    <3>1. row'.tier = row.tier /\ UNCHANGED <<setup, health>>
      BY <2>9 DEF FinishRollback, IInv, Types
    <3> QED
      BY <3>1 DEF Failing, OverThreshold
  <2>10. ASSUME Crash \/ \E a \in Authors : CrashCopying(a) PROVE ~Failing'
    BY <2>1, <2>10 DEF Crash, CrashCopying, Down, registry
  <2>11. ASSUME Boot PROVE Failing' => GatePasses
    <3>1. UNCHANGED <<setup, health>> /\ Restarts
      BY <2>11 DEF Boot, Restarts
    <3>2. CASE Nothing \/ RegateFails
      BY <2>1, <3>1, <3>2 DEF Nothing, RegateFails
    <3>3. CASE FastReload
      <4>1. row'.tier = row.tier
        BY <3>3 DEF FastReload, IInv, Types
      <4> QED
        BY <3>1, <4>1 DEF Failing, OverThreshold
    <3>4. CASE ~Trusted
      BY <3>1, <3>4 DEF GatePasses, Trusted
    <3> QED
      BY <2>11, <3>2, <3>3, <3>4 DEF Boot, Load
  <2> QED
    BY <2>2, <2>3, <2>4, <2>5, <2>6, <2>7, <2>8, <2>9, <2>10, <2>11 DEF Next
<1> QED
  BY <1>1, SkillInvariant, PTL DEF Spec, FailingStaysOut
=============================================================================
