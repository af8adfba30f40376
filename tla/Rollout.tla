------------------------------- MODULE Rollout -------------------------------
(***************************************************************************)
(* What the rollout of a plugin is made of                                 *)
(* (packages/runtime-core/rollout.go, packages/plugin-sdk/rollout.go): the *)
(* head kept per plugin, how a preflight makes one, how the transitions    *)
(* change it, and the operation record from which a head is made again     *)
(* when the store has none.                                                *)
(*                                                                         *)
(* A build of the runtime declares its plugins' manifests; the candidate   *)
(* of a plugin is the same manifest under the version "<version>-candidate"*)
(* (nextRuntimeCandidateManifest).                                         *)
(***************************************************************************)
EXTENDS Integers

CONSTANTS
    Builds,     \* of the runtime
    Contracts,  \* a manifest's mode and API version
    Contract,   \* build -> what the plugins of that build declare
    None        \* no version, no contract, no candidate, no head

ASSUME ContractAssumption == Contract \in [Builds -> Contracts]
ASSUME NoneAssumption == None \notin Contracts

Phases == {"stable", "candidate", "canary"}
Statuses == {"prepared", "rejected", "canarying", "activated", "rolled_back", "failed"}

Version == [build : Builds, candidate : BOOLEAN]
Snapshot == [version : Version \cup {None}, contract : Contracts \cup {None}]
RolloutHead == [stable : Snapshot, active : Snapshot, candidate : Snapshot \cup {None},
         phase : Phases, status : Statuses]
Record == [current : Version \cup {None}, candidate : Version \cup {None},
           status : Statuses]

ASSUME NoVersionAssumption == None \notin Version \cup Snapshot \cup RolloutHead \cup Record

rolloutSnapshotStateFromManifest(build) ==
    [version |-> [build |-> build, candidate |-> FALSE], contract |-> Contract[build]]

nextRuntimeCandidateManifest(build) ==
    [version |-> [build |-> build, candidate |-> TRUE], contract |-> Contract[build]]

\* The preflight: the manifest of the store against the candidate of this build.
Rejected(current, candidate) ==
    \/ current.contract # candidate.contract
    \/ current.version = candidate.version

evaluate(manifest, build) ==
    LET current == rolloutSnapshotStateFromManifest(manifest)
        next == nextRuntimeCandidateManifest(build)
        refused == Rejected(current, next)
    IN  [stable |-> current, active |-> current, candidate |-> next,
         phase |-> IF refused THEN "stable" ELSE "candidate",
         status |-> IF refused THEN "rejected" ELSE "prepared"]

\* What a prepared head must still agree with when it is used.
Drifted(head, fresh) ==
    \/ fresh.status # "prepared"
    \/ head.candidate = None
    \/ fresh.stable.version # head.stable.version
    \/ fresh.candidate.version # head.candidate.version

IsPrepared(head) == head.phase \in {"candidate", "canary"}

activated(head) ==
    LET next == IF head.candidate = None THEN head.stable ELSE head.candidate
    IN  [head EXCEPT !.stable = next,
                     !.active = IF head.candidate = None THEN head.active ELSE next,
                     !.candidate = None,
                     !.phase = "stable", !.status = "activated"]

\* A canary in which the stable snapshot stays active.
canariedInName(head) == [head EXCEPT !.phase = "canary", !.status = "canarying"]

canaried(head) ==
    [head EXCEPT !.active = IF head.candidate = None THEN head.active ELSE head.candidate,
                 !.phase = "canary", !.status = "canarying"]

rolloutHeadCanRollback(head) == head.phase = "canary" \/ head.status = "activated"

rolledBack(head) ==
    [head EXCEPT !.active = head.stable, !.phase = "stable", !.status = "rolled_back"]

versionOf(snapshot) == IF snapshot = None THEN None ELSE snapshot.version

rolloutRecordFromHead(head) ==
    [current |-> IF head.active.version = None THEN head.stable.version
                                               ELSE head.active.version,
     candidate |-> versionOf(head.candidate), status |-> head.status]

\* What is recorded of a plugin without a head.
NoRecord == [current |-> None, candidate |-> None, status |-> "failed"]

rolloutHeadPhaseForRecord(record) ==
    CASE record.status = "prepared" -> "candidate"
      [] record.status = "canarying" -> "canary"
      [] record.status = "rejected" /\ record.candidate # None -> "candidate"
      [] OTHER -> "stable"

\* A record keeps versions only: the contract is lost, and of a canary the
\* stable version too.
rolloutHeadFromOperationRecord(record) ==
    LET bare(version) == [version |-> version, contract |-> None]
        known == record.candidate # None
        done == record.status = "activated" /\ known
    IN  [stable |-> bare(IF done THEN record.candidate ELSE record.current),
         active |-> bare(IF done \/ (record.status = "canarying" /\ known)
                         THEN record.candidate ELSE record.current),
         candidate |-> IF known /\ ~done THEN bare(record.candidate) ELSE None,
         phase |-> rolloutHeadPhaseForRecord(record), status |-> record.status]
=============================================================================
