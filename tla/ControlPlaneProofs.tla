------------------------- MODULE ControlPlaneProofs -------------------------
(***************************************************************************)
(* Proofs about ControlPlane, for every set of goroutines, plugins,        *)
(* requests and configurations, and whatever fails.  The heads of the      *)
(* rollout manager are sound transition by transition; the host's mutex    *)
(* keeps a command's effects in place until it is audited; and what a      *)
(* reload publishes is never older than the reloads that were under way    *)
(* when a request came.                                                    *)
(***************************************************************************)
EXTENDS ControlPlane, FiniteSetTheorems, TLAPS

-----------------------------------------------------------------------------
(* Heads and records *)

\* HeadSound, and what it rests on: a head under way names its candidate.
HeadOK(head) ==
    /\ HeadSound(head)
    /\ head.status \in {"prepared", "canarying"} => head.candidate # None
    /\ head.candidate # None => head.candidate.version # None

\* A record of a rollout under way names the candidate.
RecordOK(record) == record.status \in {"prepared", "canarying"} => record.candidate # None

RolloutsOK ==
    /\ \A p \in Plugins : heads[p] # None => HeadOK(heads[p])
    /\ \A p \in Plugins : storedHeads[p] # None => HeadOK(storedHeads[p])
    /\ \A p \in Plugins : lastOperation[p] # None => RecordOK(lastOperation[p])

\* The part of the type invariant that is about rollouts.
RolloutTypeOK ==
    /\ build \in Builds /\ manifest \in Builds
    /\ heads \in [Plugins -> RolloutHead \cup {None}]
    /\ storedHeads \in [Plugins -> RolloutHead \cup {None}]
    /\ lastOperation \in [Plugins -> Record \cup {None}]
    /\ saving \in [Calls -> [record : Record, head : RolloutHead \cup {None}]]
    /\ since \in SUBSET Builds

\* No snapshot, no version, no head and no record is the absent one.
LEMMA NothingIsNone ==
    /\ \A v \in Version : v # None
    /\ \A s \in Snapshot : s # None
    /\ \A h \in RolloutHead : h # None
    /\ \A r \in Record : r # None
BY NoVersionAssumption

\* The snapshots of a build.
LEMMA ManifestSnapshots ==
    ASSUME NEW b \in Builds
    PROVE  /\ rolloutSnapshotStateFromManifest(b) \in Snapshot
           /\ nextRuntimeCandidateManifest(b) \in Snapshot
           /\ rolloutSnapshotStateFromManifest(b).version \in Version
           /\ nextRuntimeCandidateManifest(b).version \in Version
           /\ rolloutSnapshotStateFromManifest(b).contract \in Contracts
BY ContractAssumption DEF rolloutSnapshotStateFromManifest, nextRuntimeCandidateManifest, Snapshot, Version

\* A preflight makes a sound head, prepared or rejected.
LEMMA PreflightSound ==
    ASSUME NEW m \in Builds, NEW b \in Builds
    PROVE  /\ evaluate(m, b) \in RolloutHead
           /\ HeadOK(evaluate(m, b))
           /\ evaluate(m, b).status \in {"prepared", "rejected"}
           /\ evaluate(m, b).stable = rolloutSnapshotStateFromManifest(m)
<1> DEFINE current == rolloutSnapshotStateFromManifest(m)
           next == nextRuntimeCandidateManifest(b)
           head == evaluate(m, b)
<1>1. current \in Snapshot /\ next \in Snapshot /\ next.version \in Version
      /\ current.contract \in Contracts
  BY ManifestSnapshots
<1>2. next # None /\ next.version # None /\ current.contract # None
  BY <1>1, NothingIsNone, NoneAssumption
<1>3. /\ head.stable = current /\ head.active = current /\ head.candidate = next
      /\ head.phase \in {"stable", "candidate"}
      /\ head.status \in {"prepared", "rejected"}
      /\ head.phase = "candidate" => ~Rejected(current, next)
  BY DEF evaluate
<1>4. head = [stable |-> current, active |-> current, candidate |-> next,
              phase |-> head.phase, status |-> head.status]
  BY DEF evaluate
<1> HIDE DEF current, next, head
<1>5. head \in RolloutHead
  BY <1>1, <1>3, <1>4 DEF RolloutHead, Phases, Statuses
<1>6. HeadOK(head)
  BY <1>2, <1>3 DEF HeadOK, HeadSound, IsPrepared, Rejected
<1> QED
  BY <1>3, <1>5, <1>6 DEF head, current

\* A head under way names its candidate, of another version and compatible.
LEMMA PreparedNamesCandidate ==
    ASSUME NEW h, HeadOK(h), IsPrepared(h)
    PROVE  /\ h.candidate # None /\ h.candidate.version # None
           /\ ~Rebuilt(h) => /\ h.candidate.version # h.stable.version
                             /\ h.candidate.contract = h.stable.contract
BY DEF HeadOK, HeadSound, IsPrepared

\* A canary of a prepared head is sound.
LEMMA CanarySound ==
    ASSUME NEW h \in RolloutHead, HeadOK(h), IsPrepared(h)
    PROVE  /\ canaried(h) \in RolloutHead
           /\ HeadOK(canaried(h))
           /\ canaried(h).status = "canarying"
<1> DEFINE next == canaried(h)
<1>1. /\ h.stable \in Snapshot /\ h.active \in Snapshot /\ h.candidate \in Snapshot
      /\ h.phase \in Phases /\ h.status \in Statuses
  BY PreparedNamesCandidate DEF RolloutHead
<1>2. next \in RolloutHead
  BY <1>1 DEF canaried, RolloutHead, Phases, Statuses
<1>3. /\ next.stable = h.stable /\ next.active = h.candidate /\ next.candidate = h.candidate
      /\ next.phase = "canary" /\ next.status = "canarying"
  BY PreparedNamesCandidate DEF canaried, RolloutHead
<1> HIDE DEF next
<1>4. HeadOK(next)
  BY <1>3, PreparedNamesCandidate DEF HeadOK, HeadSound, IsPrepared, Rebuilt
<1> QED
  BY <1>2, <1>3, <1>4 DEF next

\* Activation makes the candidate the stable snapshot.
LEMMA ActivationSound ==
    ASSUME NEW h \in RolloutHead, HeadOK(h), IsPrepared(h)
    PROVE  /\ activated(h) \in RolloutHead
           /\ HeadOK(activated(h))
           /\ activated(h).status = "activated"
           /\ activated(h).stable = h.candidate
<1> DEFINE next == activated(h)
<1>1. h.candidate \in Snapshot
  BY PreparedNamesCandidate DEF RolloutHead
<1>2. next \in RolloutHead
  BY <1>1, PreparedNamesCandidate DEF activated, RolloutHead, Phases, Statuses
<1>3. /\ next.stable = h.candidate /\ next.active = h.candidate /\ next.candidate = None
      /\ next.phase = "stable" /\ next.status = "activated"
  BY PreparedNamesCandidate DEF activated, RolloutHead
<1> HIDE DEF next
<1>4. HeadOK(next)
  BY <1>3 DEF HeadOK, HeadSound, IsPrepared
<1> QED
  BY <1>2, <1>3, <1>4 DEF next

\* A rollback makes the stable snapshot active again.
LEMMA RollbackSound ==
    ASSUME NEW h \in RolloutHead, HeadOK(h)
    PROVE  /\ rolledBack(h) \in RolloutHead
           /\ HeadOK(rolledBack(h))
           /\ rolledBack(h).status = "rolled_back"
<1> DEFINE next == rolledBack(h)
<1>1. next \in RolloutHead
  BY DEF rolledBack, RolloutHead, Phases, Statuses
<1>2. /\ next.stable = h.stable /\ next.active = h.stable /\ next.candidate = h.candidate
      /\ next.phase = "stable" /\ next.status = "rolled_back"
  BY DEF rolledBack, RolloutHead
<1> HIDE DEF next
<1>3. HeadOK(next)
  BY <1>2 DEF HeadOK, HeadSound, IsPrepared
<1> QED
  BY <1>1, <1>2, <1>3 DEF next

\* The record of a sound head, and the record of no head.
LEMMA RecordSound ==
    /\ NoRecord \in Record /\ RecordOK(NoRecord)
    /\ \A h \in RolloutHead : HeadOK(h) =>
          rolloutRecordFromHead(h) \in Record /\ RecordOK(rolloutRecordFromHead(h))
<1>1. NoRecord \in Record /\ RecordOK(NoRecord)
  BY DEF NoRecord, Record, RecordOK, Statuses
<1>2. ASSUME NEW h \in RolloutHead, HeadOK(h)
      PROVE  rolloutRecordFromHead(h) \in Record /\ RecordOK(rolloutRecordFromHead(h))
  <2>1. /\ h.stable.version \in Version \cup {None}
        /\ h.active.version \in Version \cup {None}
        /\ versionOf(h.candidate) \in Version \cup {None}
        /\ h.status \in Statuses
    BY DEF RolloutHead, Snapshot, versionOf
  <2>2. h.status \in {"prepared", "canarying"} => versionOf(h.candidate) # None
    BY <1>2 DEF HeadOK, versionOf
  <2> QED
    BY <2>1, <2>2 DEF rolloutRecordFromHead, Record, RecordOK
<1> QED
  BY <1>1, <1>2

\* A head made again from a record is sound, without what the record lost.
LEMMA RebuiltSound ==
    ASSUME NEW r \in Record, RecordOK(r)
    PROVE  /\ rolloutHeadFromOperationRecord(r) \in RolloutHead
           /\ HeadOK(rolloutHeadFromOperationRecord(r))
<1> DEFINE bare(version) == [version |-> version, contract |-> None]
           known == r.candidate # None
           done == r.status = "activated" /\ known
           head == rolloutHeadFromOperationRecord(r)
<1>1. /\ r.current \in Version \cup {None} /\ r.candidate \in Version \cup {None}
      /\ r.status \in Statuses
  BY DEF Record
<1>2. /\ bare(r.current) \in Snapshot /\ bare(r.candidate) \in Snapshot
      /\ bare(r.current).contract = None /\ bare(r.candidate).contract = None
      /\ bare(r.candidate).version = r.candidate
  BY <1>1 DEF Snapshot
<1>3. bare(r.candidate) # None
  BY <1>2, NothingIsNone
<1>4. /\ head.stable = bare(IF done THEN r.candidate ELSE r.current)
      /\ head.active = bare(IF done \/ (r.status = "canarying" /\ known)
                            THEN r.candidate ELSE r.current)
      /\ head.candidate = (IF known /\ ~done THEN bare(r.candidate) ELSE None)
      /\ head.phase = rolloutHeadPhaseForRecord(r) /\ head.status = r.status
  BY DEF rolloutHeadFromOperationRecord
<1>5. /\ rolloutHeadPhaseForRecord(r) \in Phases
      /\ rolloutHeadPhaseForRecord(r) = "canary" => r.status = "canarying"
      /\ rolloutHeadPhaseForRecord(r) = "candidate" => known /\ r.status \in {"prepared", "rejected"}
      /\ r.status = "canarying" => rolloutHeadPhaseForRecord(r) = "canary" /\ known
  BY <1>1 DEF rolloutHeadPhaseForRecord, Phases, Statuses, RecordOK
<1>6. head = [stable |-> head.stable, active |-> head.active, candidate |-> head.candidate,
              phase |-> head.phase, status |-> head.status]
  BY DEF rolloutHeadFromOperationRecord
<1> HIDE DEF bare, head
<1>7. /\ head.stable \in Snapshot /\ head.active \in Snapshot
      /\ head.candidate \in Snapshot \cup {None}
      /\ head.phase \in Phases /\ head.status \in Statuses
  BY <1>1, <1>2, <1>4, <1>5
<1>8. head \in RolloutHead
  BY <1>6, <1>7 DEF RolloutHead
<1>9. head.stable.contract = None
  BY <1>2, <1>4
<1>10. HeadOK(head)
  <2>1. head.phase # "canary" => head.active = head.stable
    BY <1>4, <1>5
  <2>2. head.phase = "canary" => head.candidate # None /\ head.active = head.candidate
    BY <1>3, <1>4, <1>5
  <2>3. head.phase = "candidate" => head.candidate # None
    BY <1>3, <1>4, <1>5
  <2>4. head.status = "activated" => head.candidate = None
    BY <1>4
  <2>5. head.status \in {"prepared", "canarying"} => head.candidate # None
    BY <1>3, <1>4 DEF RecordOK
  <2>6. head.candidate # None => head.candidate.version # None
    BY <1>2, <1>4
  <2> QED
    BY <1>9, <2>1, <2>2, <2>3, <2>4, <2>5, <2>6 DEF HeadOK, HeadSound, Rebuilt
<1> QED
  BY <1>8, <1>10 DEF head

-----------------------------------------------------------------------------
(* The rollout manager *)

\* The preflight of the moment.
LEMMA FreshSound ==
    ASSUME RolloutTypeOK
    PROVE  /\ Fresh \in RolloutHead /\ HeadOK(Fresh)
           /\ Fresh.status \in {"prepared", "rejected"}
           /\ Fresh.stable = rolloutSnapshotStateFromManifest(manifest)
BY PreflightSound DEF RolloutTypeOK, Fresh

\* A head that is there is a sound one.
LEMMA PresentHeads ==
    ASSUME RolloutTypeOK, RolloutsOK, NEW p \in Plugins, heads[p] # None
    PROVE  heads[p] \in RolloutHead /\ HeadOK(heads[p])
BY DEF RolloutTypeOK, RolloutsOK

\* The checks with which a rollout goes on.
LEMMA ChecksMean ==
    ASSUME RolloutTypeOK, RolloutsOK, NEW p \in Plugins
    PROVE  /\ validatePreparedState(p) =>
                /\ heads[p] \in RolloutHead /\ HeadOK(heads[p]) /\ IsPrepared(heads[p])
                /\ heads[p].stable.version = rolloutSnapshotStateFromManifest(manifest).version
BY PresentHeads, FreshSound DEF validatePreparedState, Drifted

-----------------------------------------------------------------------------
(* The invariant *)

Reloading == {"identities", "publish"}
Entering == Reloading \cup {"policies"}

\* Which requests can be where.
PlaceOK(call) ==
    /\ call.action \in Commands => call.target \in Plugins
    /\ call.stage = "act" => call.action \in {"enable", "disable", "prepare", "canary"}
    /\ call.stage \in {"can_activate", "enable_first", "mark"} => call.action = "activate"
    /\ call.stage \in {"can_rollback", "unmark"} => call.action = "rollback"
    /\ call.stage \in Saving => call.action \in Rollouts
    /\ call.stage \in Served \cup {"gate", "dispatch", "queued"} => call.action \in Commands
    /\ call.stage \in {"permit", "change", "note"} => call.action = "operate"

\* What a request knows of its outcome, its audit and its answer.
AuditOK(call) ==
    /\ call.stage # "answered" => call.status = "none"
    /\ call.stage = "reply" /\ call.outcome = "done" => call.audited = "done"
    /\ call.stage = "respond" /\ ~call.again => call.outcome = "done" /\ call.audited = "done"
    /\ call.stage = "note" => call.outcome = "done"
    /\ call.status = "ok" /\ ~call.again =>
          /\ call.outcome = "done"
          /\ call.action \in Commands => call.audited = "done"

\* What a request in the plugin has brought about.
EffectOK(call) ==
    /\ call.stage \in {"audit", "reply"} /\ call.outcome = "done" => Effect(call)
    /\ call.stage = "mark" => overlay[call.target]

\* What a head that is to be saved makes of a command that says it was done.
Intended(call, head) ==
    /\ call.action = "prepare" => head.status = "prepared"
    /\ call.action = "canary" => head.status = "canarying"
    /\ call.action = "activate" => head.status = "activated"
    /\ call.action = "rollback" => head.status = "rolled_back"

\* What is so as long as a head that is marked activated waits to be saved.
Marks(c, head) ==
    /\ heads[calls[c].target] # None /\ IsPrepared(heads[calls[c].target])
    /\ head.stable = heads[calls[c].target].candidate
    /\ \E b \in since :
          heads[calls[c].target].stable.version = rolloutSnapshotStateFromManifest(b).version
    /\ overlay[calls[c].target]

\* What a request has yet to save is sound, and is what it decided: nobody else
\* touches the head or the plugin in the meantime, whatever becomes of the manifest.
SavingOK(c) ==
    /\ calls[c].stage = "mark" => manifest \in since
    /\ calls[c].stage \in Saving =>
          /\ RecordOK(saving[c].record)
          /\ saving[c].head # None => HeadOK(saving[c].head)
          /\ saving[c].head # None /\ saving[c].head.status = "activated"
                => Marks(c, saving[c].head)
          /\ calls[c].outcome = "done"
                => saving[c].head # None /\ Intended(calls[c], saving[c].head)
    /\ calls[c].stage = "head" => saving[c].head # None

SavingsOK == \A c \in Calls : calls[c] # None => SavingOK(c)

\* A decision made under configurations not older than the request's floor.
Decided(call) ==
    /\ call.policies \in 1..Len(installed) /\ call.identities \in 1..Len(installed)
    /\ call.policies >= call.floor /\ call.identities >= call.floor
    /\ Granted(call.policies, call.identities, call)

\* The configurations a request has read, may be decided under, was decided under.
IndexOK(call) ==
    /\ call.floor <= Len(installed)
    /\ call.stage \in Reloading => call.policies \in 1..Len(installed)
    /\ call.stage = "publish" => call.identities \in call.policies..Len(installed)
    /\ call.stage \notin Entering \cup {"answered"} =>
          provider.policies >= call.floor /\ provider.identities >= call.floor
    /\ call.stage \in Permitted \cup {"change"} => Decided(call)

LockOK ==
    /\ lock # None => calls[lock] # None /\ calls[lock].stage \in Served
    /\ \A c \in Calls : calls[c] # None /\ calls[c].stage \in Served => lock = c

\* What a reload under way may publish is not older than any request's floor.
FloorsOK ==
    \A c, d \in Calls :
        calls[c] # None /\ calls[d] # None /\ calls[d].stage \in Reloading
            => calls[d].policies >= calls[c].floor

ProviderOK ==
    provider.policies \in 1..Len(installed) /\ provider.identities \in 1..Len(installed)

CallsOK ==
    \A c \in Calls : calls[c] # None =>
        PlaceOK(calls[c]) /\ AuditOK(calls[c]) /\ EffectOK(calls[c]) /\ IndexOK(calls[c])

\* The inductive invariant.
ControlInvariant ==
    /\ ControlTypeOK /\ RolloutsOK /\ SavingsOK
    /\ LockOK /\ FloorsOK /\ ProviderOK /\ CallsOK

-----------------------------------------------------------------------------
(* Steps of one request *)

\* A request keeps what it asks for.
Same(c, d) ==
    /\ d.action = calls[c].action /\ d.actor = calls[c].actor
    /\ d.target = calls[c].target /\ d.floor = calls[c].floor

\* A request that is past its reload goes on.  Either it holds the host, or takes
\* it, and may change anything behind it; or it leaves that alone.
Moves(c, d) ==
    /\ calls' = [calls EXCEPT ![c] = d]
    /\ Same(c, d) /\ d.stage \notin Entering
    /\ UNCHANGED <<provider, installed>>
    /\ \/ /\ lock \in {None, c}
          /\ lock' = IF d.stage \in Served THEN c ELSE None
       \/ /\ calls[c].stage \notin Served /\ d.stage \notin Served
          /\ UNCHANGED <<lock, heads, overlay, manifest, saving, since>>
    /\ d.stage \in Saving \cup {"mark"} => SavingOK(c)'

\* What a request has to save waits unchanged while others go on.
LEMMA SavingStays ==
    ASSUME NEW k \in Calls, calls'[k] = calls[k], saving'[k] = saving[k],
           UNCHANGED <<heads, overlay, manifest, since>>, SavingOK(k)
    PROVE  SavingOK(k)'
BY DEF SavingOK, Marks, Intended, RecordOK, HeadOK, HeadSound, IsPrepared, Rebuilt

\* There is nothing to say of a request that has nothing to save.
LEMMA NothingSaved ==
    ASSUME NEW k \in Calls, calls'[k].stage \notin Saving \cup {"mark"}
    PROVE  SavingOK(k)'
BY DEF SavingOK, Saving

\* Such a step keeps the invariant if what it makes of its own request is sound.
LEMMA MovesKeep ==
    ASSUME ControlInvariant, NEW c \in Calls, calls[c] # None, NEW d \in Call, Moves(c, d),
           ControlTypeOK', RolloutsOK',
           PlaceOK(d), AuditOK(d), EffectOK(d)', IndexOK(d)'
    PROVE  ControlInvariant'
<1>1. calls \in [Calls -> Call \cup {None}]
  BY DEF ControlInvariant, ControlTypeOK
<1>2. \A k \in Calls : calls'[k] = IF k = c THEN d ELSE calls[k]
  BY <1>1 DEF Moves
<1>3. d # None
  BY NoCallAssumption
<1>4. LockOK'
  <2>1. CASE lock \in {None, c} /\ lock' = IF d.stage \in Served THEN c ELSE None
    <3>1. \A k \in Calls : k # c /\ calls[k] # None => calls[k].stage \notin Served
      BY <2>1, CallsAssumption DEF ControlInvariant, LockOK
    <3>2. c # None
      BY CallsAssumption
    <3> QED
      BY <1>2, <1>3, <2>1, <3>1, <3>2 DEF LockOK
  <2>2. CASE calls[c].stage \notin Served /\ d.stage \notin Served /\ UNCHANGED lock
    <3>1. lock # None => lock \in Calls
      BY DEF ControlInvariant, ControlTypeOK
    <3>2. lock # c
      BY <2>2, CallsAssumption DEF ControlInvariant, LockOK
    <3> QED
      BY <1>2, <1>3, <2>2, <3>1, <3>2 DEF ControlInvariant, LockOK
  <2> QED
    BY <2>1, <2>2 DEF Moves
<1>5. FloorsOK'
  BY <1>2 DEF ControlInvariant, FloorsOK, Moves, Same, Entering
<1>6. ProviderOK'
  BY DEF ControlInvariant, ProviderOK, Moves
<1>7. ASSUME NEW k \in Calls, calls'[k] # None
      PROVE  (PlaceOK(calls[k]) /\ AuditOK(calls[k]) /\ EffectOK(calls[k]) /\ IndexOK(calls[k]))'
  <2>1. CASE k = c
    <3>1. calls'[k] = d
      BY <1>2, <2>1
    <3>2. PlaceOK(calls[k])' /\ AuditOK(calls[k])'
      BY <3>1 DEF PlaceOK, AuditOK
    <3>3. EffectOK(calls[k])'
      BY <3>1 DEF EffectOK, Effect
    <3>4. IndexOK(calls[k])'
      BY <3>1 DEF IndexOK, Decided, Granted, AuthorizeTarget
    <3> QED
      BY <3>2, <3>3, <3>4
  <2>2. CASE k # c
    <3>1. calls'[k] = calls[k] /\ calls[k] # None
      BY <1>2, <1>7, <2>2
    <3>2. PlaceOK(calls[k]) /\ AuditOK(calls[k]) /\ EffectOK(calls[k]) /\ IndexOK(calls[k])
      BY <3>1 DEF ControlInvariant, CallsOK
    <3>3. PlaceOK(calls[k])' /\ AuditOK(calls[k])'
      BY <3>1, <3>2 DEF PlaceOK, AuditOK
    <3>4. EffectOK(calls[k])'
      <4>1. CASE UNCHANGED <<heads, overlay>>
        BY <3>1, <3>2, <4>1 DEF EffectOK, Effect
      <4>2. CASE lock \in {None, c}
        <5>1. calls[k].stage \notin Served
          BY <2>2, <3>1, <4>2, CallsAssumption DEF ControlInvariant, LockOK
        <5> QED
          BY <3>1, <5>1 DEF EffectOK, Served, Permitted, Saving
      <4> QED
        BY <4>1, <4>2 DEF Moves
    <3>5. IndexOK(calls[k])'
      BY <3>1, <3>2 DEF Moves, IndexOK, Decided, Granted, AuthorizeTarget
    <3> QED
      BY <3>3, <3>4, <3>5
  <2> QED
    BY <2>1, <2>2
<1>8. CallsOK'
  BY <1>7 DEF CallsOK
<1>9. ASSUME NEW k \in Calls, calls'[k] # None
      PROVE  SavingOK(k)'
  <2>1. CASE k = c
    <3>1. calls'[k] = d
      BY <1>2, <2>1
    <3>2. CASE d.stage \in Saving \cup {"mark"}
      BY <2>1, <3>2 DEF Moves
    <3>3. CASE d.stage \notin Saving \cup {"mark"}
      BY <3>1, <3>3, NothingSaved
    <3> QED
      BY <3>2, <3>3
  <2>2. CASE k # c
    <3>1. calls'[k] = calls[k] /\ calls[k] # None
      BY <1>2, <1>9, <2>2
    <3>2. SavingOK(k)
      BY <3>1 DEF ControlInvariant, SavingsOK
    <3>3. CASE UNCHANGED <<heads, overlay, manifest, saving, since>>
      BY <3>1, <3>2, <3>3, SavingStays
    <3>4. CASE lock \in {None, c}
      <4>1. calls[k].stage \notin Served
        BY <2>2, <3>1, <3>4, CallsAssumption DEF ControlInvariant, LockOK
      <4>2. calls'[k].stage \notin Saving \cup {"mark"}
        BY <3>1, <4>1 DEF Served, Permitted, Saving
      <4> QED
        BY <4>2, NothingSaved
    <3> QED
      BY <3>3, <3>4 DEF Moves
  <2> QED
    BY <2>1, <2>2
<1>10. SavingsOK'
  BY <1>9 DEF SavingsOK
<1> QED
  BY <1>4, <1>5, <1>6, <1>8, <1>10 DEF ControlInvariant

\* The new value of a request that changes its stage, its outcome, what is
\* audited of it and how it is answered.
Becomes(c, d, stage, outcome, audited, status) ==
    /\ calls' = [calls EXCEPT ![c] = d]
    /\ Same(c, d)
    /\ d.policies = calls[c].policies /\ d.identities = calls[c].identities
    /\ d.again = calls[c].again
    /\ d.stage = stage /\ d.outcome = outcome /\ d.audited = audited /\ d.status = status

LEMMA Becoming ==
    ASSUME ControlTypeOK, NEW c \in Calls, calls[c] # None
    PROVE  /\ \A stage \in Stages : To(c, stage) =>
                \E d \in Call : Becomes(c, d, stage, calls[c].outcome, calls[c].audited, calls[c].status)
           /\ \A outcome \in Outcomes : Finish(c, outcome) =>
                \E d \in Call : Becomes(c, d, "audit", outcome, calls[c].audited, calls[c].status)
           /\ \A status \in {"none", "ok", "denied", "error"} : Answer(c, status) =>
                \E d \in Call : Becomes(c, d, "answered", calls[c].outcome, calls[c].audited, status)
<1>1. calls[c] \in Call
  BY DEF ControlTypeOK
<1>2. ASSUME NEW stage \in Stages, To(c, stage)
      PROVE  \E d \in Call : Becomes(c, d, stage, calls[c].outcome, calls[c].audited, calls[c].status)
  <2> DEFINE d == [calls[c] EXCEPT !.stage = stage]
  <2>1. d \in Call
    BY <1>1 DEF Call
  <2>2. Becomes(c, d, stage, calls[c].outcome, calls[c].audited, calls[c].status)
    BY <1>1, <1>2 DEF Becomes, To, Same, Call
  <2> QED
    BY <2>1, <2>2
<1>3. ASSUME NEW outcome \in Outcomes, Finish(c, outcome)
      PROVE  \E d \in Call : Becomes(c, d, "audit", outcome, calls[c].audited, calls[c].status)
  <2> DEFINE d == [calls[c] EXCEPT !.stage = "audit", !.outcome = outcome]
  <2>1. d \in Call
    BY <1>1 DEF Call, Stages, Served
  <2>2. Becomes(c, d, "audit", outcome, calls[c].audited, calls[c].status)
    BY <1>1, <1>3 DEF Becomes, Finish, Same, Call
  <2> QED
    BY <2>1, <2>2
<1>4. ASSUME NEW status \in {"none", "ok", "denied", "error"}, Answer(c, status)
      PROVE  \E d \in Call : Becomes(c, d, "answered", calls[c].outcome, calls[c].audited, status)
  <2> DEFINE d == [calls[c] EXCEPT !.stage = "answered", !.status = status]
  <2>1. d \in Call
    BY <1>1 DEF Call, Stages
  <2>2. Becomes(c, d, "answered", calls[c].outcome, calls[c].audited, status)
    BY <1>1, <1>4 DEF Becomes, Answer, Same, Call
  <2> QED
    BY <2>1, <2>2
<1> QED
  BY <1>2, <1>3, <1>4

\* An answer with an audit that may get lost.
LEMMA BecomingAudited ==
    ASSUME ControlTypeOK, NEW c \in Calls, calls[c] # None, NEW outcome \in Outcomes,
           NEW status \in {"none", "ok", "denied", "error"}, AuditAndAnswer(c, outcome, status)
    PROVE  /\ faults' \in Nat
           /\ \E d \in Call, audited \in Outcomes :
                Becomes(c, d, "answered", calls[c].outcome, audited, status)
<1>1. calls[c] \in Call /\ calls[c].audited \in Outcomes /\ faults \in Nat
  BY DEF ControlTypeOK, Call
<1>2. CASE /\ calls' = [calls EXCEPT ![c].stage = "answered", ![c].status = status,
                                     ![c].audited = outcome]
           /\ UNCHANGED faults
  <2> DEFINE d == [calls[c] EXCEPT !.stage = "answered", !.status = status, !.audited = outcome]
  <2>1. d \in Call
    BY <1>1 DEF Call, Stages
  <2>2. Becomes(c, d, "answered", calls[c].outcome, outcome, status)
    BY <1>1, <1>2 DEF Becomes, Same, Call
  <2> QED
    BY <1>1, <1>2, <2>1, <2>2
<1>3. CASE Fault /\ Answer(c, status)
  BY <1>1, <1>3, Becoming DEF Fault
<1> QED
  BY <1>2, <1>3 DEF AuditAndAnswer

\* A decision under the current snapshot.
LEMMA BecomingAuthorized ==
    ASSUME ControlTypeOK, NEW c \in Calls, calls[c] # None, NEW stage \in Stages,
           Authorized(c, stage)
    PROVE  \E d \in Call :
             /\ calls' = [calls EXCEPT ![c] = d]
             /\ Same(c, d)
             /\ d.policies = provider.policies /\ d.identities = provider.identities
             /\ d.stage = stage /\ d.again = calls[c].again /\ d.outcome = calls[c].outcome
             /\ d.audited = calls[c].audited /\ d.status = calls[c].status
<1> DEFINE d == [calls[c] EXCEPT !.stage = stage, !.policies = provider.policies,
                                 !.identities = provider.identities]
<1>1. calls[c] \in Call /\ provider.policies \in Nat /\ provider.identities \in Nat
  BY DEF ControlTypeOK
<1>2. d \in Call
  BY <1>1 DEF Call
<1>3. /\ calls' = [calls EXCEPT ![c] = d]
      /\ Same(c, d)
      /\ d.policies = provider.policies /\ d.identities = provider.identities
      /\ d.stage = stage /\ d.again = calls[c].again /\ d.outcome = calls[c].outcome
      /\ d.audited = calls[c].audited /\ d.status = calls[c].status
  BY <1>1 DEF Authorized, Same, Call
<1> QED
  BY <1>2, <1>3

\* A step that changes nothing but its request, and perhaps who holds the host.
LEMMA QuietMovesKeep ==
    ASSUME ControlInvariant, NEW c \in Calls, calls[c] # None, NEW d \in Call, Moves(c, d),
           UNCHANGED <<build, rollouts, store, requests, starts>>, faults' \in Nat,
           PlaceOK(d), AuditOK(d), EffectOK(d), IndexOK(d)
    PROVE  ControlInvariant'
<1>1. UNCHANGED <<build, heads, saving, storedHeads, lastOperation, since, overlay, manifest,
                  installed, requests, starts, provider>>
  BY DEF rollouts, store, Moves
<1>2. calls' \in [Calls -> Call \cup {None}]
  BY DEF ControlInvariant, ControlTypeOK, Moves
<1>3. lock' \in Calls \cup {None}
  BY DEF ControlInvariant, ControlTypeOK, Moves
<1>4. ControlTypeOK'
  BY <1>1, <1>2, <1>3 DEF ControlInvariant, ControlTypeOK
<1>5. RolloutsOK'
  BY <1>1 DEF ControlInvariant, RolloutsOK
<1>6. EffectOK(d)'
  BY <1>1 DEF EffectOK, Effect
<1>7. IndexOK(d)'
  BY <1>1 DEF IndexOK, Decided, Granted, AuthorizeTarget
<1> QED
  BY <1>4, <1>5, <1>6, <1>7, MovesKeep

\* The configurations of a request that goes on with the decision it has, that has
\* none, or that was decided now.
LEMMA IndexMoves ==
    ASSUME ControlInvariant, NEW c \in Calls, calls[c] # None, NEW d, Same(c, d),
           d.stage \notin Entering,
           d.stage = "answered" \/ calls[c].stage \notin Entering \cup {"answered"},
           \/ d.stage \notin Permitted \cup {"change"}
           \/ /\ calls[c].stage \in Permitted \cup {"change"}
              /\ d.policies = calls[c].policies /\ d.identities = calls[c].identities
           \/ /\ AllowedNow(c)
              /\ d.policies = provider.policies /\ d.identities = provider.identities
    PROVE  IndexOK(d)
<1>1. IndexOK(calls[c]) /\ ProviderOK
  BY DEF ControlInvariant, CallsOK
<1>2. d.floor <= Len(installed)
  BY <1>1 DEF IndexOK, Same
<1>3. d.stage \notin Reloading
  BY DEF Entering
<1>4. d.stage \notin Entering \cup {"answered"} =>
        provider.policies >= d.floor /\ provider.identities >= d.floor
  BY <1>1 DEF IndexOK, Same
<1>5. ASSUME d.stage \in Permitted \cup {"change"} PROVE Decided(d)
  <2>1. CASE /\ calls[c].stage \in Permitted \cup {"change"}
             /\ d.policies = calls[c].policies /\ d.identities = calls[c].identities
    BY <1>1, <2>1 DEF IndexOK, Decided, Granted, AuthorizeTarget, Same
  <2>2. CASE /\ AllowedNow(c)
             /\ d.policies = provider.policies /\ d.identities = provider.identities
    <3>1. d.stage \notin Entering \cup {"answered"}
      BY <1>5 DEF Entering, Reloading, Permitted, Saving
    <3>2. Granted(d.policies, d.identities, d)
      BY <2>2 DEF AllowedNow, Granted, AuthorizeTarget, Same
    <3> QED
      BY <1>1, <1>4, <2>2, <3>1, <3>2 DEF ProviderOK, Decided
  <2> QED
    BY <1>5, <2>1, <2>2
<1> QED
  BY <1>2, <1>3, <1>4, <1>5 DEF IndexOK, Reloading

\* What the invariant says of a request that is there.
LEMMA Present ==
    ASSUME ControlInvariant, NEW c \in Calls, calls[c] # None
    PROVE  /\ calls[c] \in Call
           /\ PlaceOK(calls[c]) /\ AuditOK(calls[c]) /\ EffectOK(calls[c]) /\ IndexOK(calls[c])
           /\ SavingOK(c)
           /\ calls[c].stage \in Served => lock = c
           /\ faults \in Nat
BY DEF ControlInvariant, ControlTypeOK, CallsOK, SavingsOK, LockOK

\* A request is in the plugin exactly when it holds the host.
LEMMA Holder ==
    ASSUME ControlInvariant, NEW c \in Calls
    PROVE  lock = c <=> calls[c] # None /\ calls[c].stage \in Served
BY CallsAssumption DEF ControlInvariant, LockOK

-----------------------------------------------------------------------------
(* Each action *)

LEMMA StoreFailsKeeps ==
    ASSUME ControlInvariant, NEW c \in Calls, StoreFails(c) PROVE ControlInvariant'
<1>1. /\ calls[c] # None /\ calls[c].stage \in Entering \cup {"respond"}
      /\ Answer(c, "error") /\ faults' = faults + 1
      /\ UNCHANGED <<build, rollouts, lock, provider, store, requests, starts>>
  BY DEF StoreFails, At, Entering, Reloading, Fault
<1>2. PICK d \in Call : Becomes(c, d, "answered", calls[c].outcome, calls[c].audited, "error")
  BY <1>1, Becoming DEF ControlInvariant
<1>3. Moves(c, d)
  BY <1>1, <1>2 DEF Becomes, Moves, Entering, Reloading, Served, Permitted, Saving, rollouts, store
<1>4. PlaceOK(d) /\ AuditOK(d) /\ EffectOK(d)
  BY <1>1, <1>2, Present DEF Becomes, Same, PlaceOK, AuditOK, EffectOK, Served, Permitted, Saving
<1>5. IndexOK(d)
  BY <1>1, <1>2, IndexMoves DEF Becomes, Entering, Reloading, Permitted, Saving
<1>6. faults' \in Nat
  BY <1>1, Present
<1> QED
  BY <1>1, <1>3, <1>4, <1>5, <1>6, QuietMovesKeep

LEMMA DispatchCommandKeeps ==
    ASSUME ControlInvariant, NEW c \in Calls, DispatchCommand(c) PROVE ControlInvariant'
<1>1. /\ calls[c] # None /\ calls[c].stage = "gate"
      /\ UNCHANGED <<build, rollouts, lock, provider, store, requests, starts>>
  BY DEF DispatchCommand, At
<1>2. CASE To(c, "dispatch") /\ UNCHANGED faults
  <2>1. PICK d \in Call : Becomes(c, d, "dispatch", calls[c].outcome, calls[c].audited, calls[c].status)
    BY <1>1, <1>2, Becoming DEF ControlInvariant, Stages
  <2>2. Moves(c, d)
    BY <1>1, <2>1 DEF Becomes, Moves, Entering, Reloading, Served, Permitted, Saving, rollouts, store
  <2>3. PlaceOK(d) /\ AuditOK(d) /\ EffectOK(d)
    BY <1>1, <2>1, Present DEF Becomes, Same, PlaceOK, AuditOK, EffectOK, Served, Permitted, Saving
  <2>4. IndexOK(d)
    BY <1>1, <2>1, IndexMoves DEF Becomes, Entering, Reloading, Permitted, Saving
  <2> QED
    BY <1>1, <1>2, <2>2, <2>3, <2>4, Present, QuietMovesKeep
<1>3. CASE AuditAndAnswer(c, "denied", "denied")
  <2>1. PICK d \in Call, audited \in Outcomes :
          Becomes(c, d, "answered", calls[c].outcome, audited, "denied")
    BY <1>1, <1>3, BecomingAudited DEF ControlInvariant, Outcomes
  <2>2. Moves(c, d)
    BY <1>1, <2>1 DEF Becomes, Moves, Entering, Reloading, Served, Permitted, Saving, rollouts, store
  <2>3. PlaceOK(d) /\ AuditOK(d) /\ EffectOK(d)
    BY <1>1, <2>1, Present DEF Becomes, Same, PlaceOK, AuditOK, EffectOK, Served, Permitted, Saving
  <2>4. IndexOK(d)
    BY <1>1, <2>1, IndexMoves DEF Becomes, Entering, Reloading, Permitted, Saving
  <2>5. faults' \in Nat
    BY <1>1, <1>3, BecomingAudited DEF ControlInvariant, Outcomes
  <2> QED
    BY <1>1, <2>2, <2>3, <2>4, <2>5, QuietMovesKeep
<1> QED
  BY <1>2, <1>3 DEF DispatchCommand

LEMMA dispatchToPluginsKeeps ==
    ASSUME ControlInvariant, NEW c \in Calls, dispatchToPlugins(c) PROVE ControlInvariant'
<1>1. /\ calls[c] # None /\ calls[c].stage = "dispatch"
      /\ UNCHANGED <<build, rollouts, lock, provider, store, requests, starts, faults>>
  BY DEF dispatchToPlugins, At
<1>2. PICK d \in Call :
        \/ Becomes(c, d, "queued", calls[c].outcome, calls[c].audited, calls[c].status)
        \/ Becomes(c, d, "answered", calls[c].outcome, calls[c].audited, "error")
  BY <1>1, Becoming DEF ControlInvariant, Stages, dispatchToPlugins
<1>3. Moves(c, d)
  BY <1>1, <1>2 DEF Becomes, Moves, Entering, Reloading, Served, Permitted, Saving, rollouts, store
<1>4. PlaceOK(d) /\ AuditOK(d) /\ EffectOK(d)
  BY <1>1, <1>2, Present DEF Becomes, Same, PlaceOK, AuditOK, EffectOK, Served, Permitted, Saving
<1>5. IndexOK(d)
  BY <1>1, <1>2, IndexMoves DEF Becomes, Entering, Reloading, Permitted, Saving
<1> QED
  BY <1>1, <1>3, <1>4, <1>5, Present, QuietMovesKeep

LEMMA AcquireHostKeeps ==
    ASSUME ControlInvariant, NEW c \in Calls, AcquireHost(c) PROVE ControlInvariant'
<1>1. /\ calls[c] # None /\ calls[c].stage = "queued" /\ lock = None /\ lock' = c
      /\ To(c, "authorize")
      /\ UNCHANGED <<build, rollouts, provider, store, requests, starts, faults>>
  BY DEF AcquireHost, At
<1>2. PICK d \in Call :
        Becomes(c, d, "authorize", calls[c].outcome, calls[c].audited, calls[c].status)
  BY <1>1, Becoming DEF ControlInvariant, Stages, Served
<1>3. Moves(c, d)
  BY <1>1, <1>2 DEF Becomes, Moves, Entering, Reloading, Served, Permitted, Saving, rollouts, store
<1>4. PlaceOK(d) /\ AuditOK(d) /\ EffectOK(d)
  BY <1>1, <1>2, Present DEF Becomes, Same, PlaceOK, AuditOK, EffectOK, Served, Permitted, Saving
<1>5. IndexOK(d)
  BY <1>1, <1>2, IndexMoves DEF Becomes, Entering, Reloading, Permitted, Saving
<1> QED
  BY <1>1, <1>3, <1>4, <1>5, Present, QuietMovesKeep

\* The command enters the plugin under a decision, or is denied.
LEMMA PluginAuthorizesKeeps ==
    ASSUME ControlInvariant, NEW c \in Calls, PluginAuthorizes(c) PROVE ControlInvariant'
<1>1. /\ calls[c] # None /\ calls[c].stage = "authorize"
      /\ UNCHANGED <<build, rollouts, lock, provider, store, requests, starts, faults>>
      /\ calls[c].action \in Commands
  BY Present DEF PluginAuthorizes, At, PlaceOK, Served
<1>2. lock = c
  BY <1>1, Holder DEF Served
<1>3. CASE AllowedNow(c) /\ Authorized(c, EnteringHost(calls[c].action))
  <2>1. /\ EnteringHost(calls[c].action) \in {"act", "can_activate", "can_rollback"}
        /\ calls[c].action = "activate" <=> EnteringHost(calls[c].action) = "can_activate"
        /\ calls[c].action = "rollback" <=> EnteringHost(calls[c].action) = "can_rollback"
    BY DEF EnteringHost
  <2>2. PICK d \in Call :
           /\ calls' = [calls EXCEPT ![c] = d]
           /\ Same(c, d)
           /\ d.policies = provider.policies /\ d.identities = provider.identities
           /\ d.stage = EnteringHost(calls[c].action)
           /\ d.again = calls[c].again /\ d.outcome = calls[c].outcome
           /\ d.audited = calls[c].audited /\ d.status = calls[c].status
    BY <1>1, <1>3, <2>1, BecomingAuthorized DEF ControlInvariant, Stages, Served, Permitted, Saving
  <2>3. Moves(c, d)
    BY <1>1, <1>2, <2>1, <2>2 DEF Moves, Entering, Reloading, Served, Permitted, Saving, rollouts, store
  <2>4. PlaceOK(d)
    BY <1>1, <2>1, <2>2, Present DEF Same, PlaceOK, Served, Permitted, Saving, Commands, Rollouts
  <2>5. AuditOK(d) /\ EffectOK(d)
    BY <1>1, <2>1, <2>2, Present DEF Same, AuditOK, EffectOK
  <2>6. IndexOK(d)
    BY <1>1, <1>3, <2>1, <2>2, IndexMoves DEF Entering, Reloading, Permitted, Saving
  <2> QED
    BY <1>1, <2>3, <2>4, <2>5, <2>6, Present, QuietMovesKeep
<1>4. CASE Finish(c, "denied")
  <2>1. PICK d \in Call : Becomes(c, d, "audit", "denied", calls[c].audited, calls[c].status)
    BY <1>1, <1>4, Becoming DEF ControlInvariant, Outcomes
  <2>2. Moves(c, d)
    BY <1>1, <1>2, <2>1 DEF Becomes, Moves, Entering, Reloading, Served, Saving, rollouts, store
  <2>3. PlaceOK(d) /\ AuditOK(d) /\ EffectOK(d)
    BY <1>1, <2>1, Present DEF Becomes, Same, PlaceOK, AuditOK, EffectOK, Served, Permitted, Saving
  <2>4. IndexOK(d)
    BY <1>1, <2>1, IndexMoves DEF Becomes, Entering, Reloading, Permitted, Saving
  <2> QED
    BY <1>1, <2>2, <2>3, <2>4, Present, QuietMovesKeep
<1> QED
  BY <1>3, <1>4 DEF PluginAuthorizes

\* The audit says what was done, or what was done counts as failed.
LEMMA recordAndJoinKeeps ==
    ASSUME ControlInvariant, NEW c \in Calls, recordAndJoin(c) PROVE ControlInvariant'
<1>1. /\ calls[c] # None /\ calls[c].stage = "audit"
      /\ UNCHANGED <<build, rollouts, lock, provider, store, requests, starts>>
      /\ calls[c] \in Call
  BY Present DEF recordAndJoin, At
<1>2. lock = c
  BY <1>1, Holder DEF Served
<1>3. faults' \in Nat
  BY Present, <1>1 DEF recordAndJoin, Fault
<1>4. \E outcome \in Outcomes, audited \in Outcomes, d \in Call :
         /\ Becomes(c, d, "reply", outcome, audited, calls[c].status)
         /\ outcome = "done" => calls[c].outcome = "done" /\ audited = "done"
  <2>1. CASE calls' = [calls EXCEPT ![c].stage = "reply", ![c].audited = calls[c].outcome]
    <3> DEFINE d == [calls[c] EXCEPT !.stage = "reply", !.audited = calls[c].outcome]
    <3>1. d \in Call
      BY <1>1 DEF Call, Stages, Served
    <3>2. Becomes(c, d, "reply", calls[c].outcome, calls[c].outcome, calls[c].status)
      BY <1>1, <2>1 DEF Becomes, Same, Call
    <3>3. calls[c].outcome \in Outcomes
      BY <1>1 DEF Call
    <3> QED
      BY <3>1, <3>2, <3>3
  <2>2. CASE calls' = [calls EXCEPT ![c].stage = "reply",
                           ![c].outcome = IF @ = "denied" THEN "denied" ELSE "failed"]
    <3> DEFINE o == IF calls[c].outcome = "denied" THEN "denied" ELSE "failed"
               d == [calls[c] EXCEPT !.stage = "reply", !.outcome = o]
    <3>1. o \in Outcomes /\ o # "done" /\ calls[c].audited \in Outcomes
      BY <1>1 DEF Call, Outcomes
    <3>2. d \in Call
      BY <1>1, <3>1 DEF Call, Stages, Served
    <3>3. Becomes(c, d, "reply", o, calls[c].audited, calls[c].status)
      BY <1>1, <2>2 DEF Becomes, Same, Call
    <3> HIDE DEF o, d
    <3> QED
      BY <3>1, <3>2, <3>3
  <2> QED
    BY <2>1, <2>2 DEF recordAndJoin
<1>5. PICK outcome \in Outcomes, audited \in Outcomes, d \in Call :
         /\ Becomes(c, d, "reply", outcome, audited, calls[c].status)
         /\ outcome = "done" => calls[c].outcome = "done" /\ audited = "done"
  BY <1>4
<1>6. Moves(c, d)
  BY <1>1, <1>2, <1>5 DEF Becomes, Moves, Entering, Reloading, Served, Saving, rollouts, store
<1>7. PlaceOK(d) /\ AuditOK(d)
  BY <1>1, <1>5, Present DEF Becomes, Same, PlaceOK, AuditOK, Served, Permitted, Saving
<1>8. EffectOK(d)
  BY <1>1, <1>5, Present DEF Becomes, Same, EffectOK, Effect
<1>9. IndexOK(d)
  BY <1>1, <1>5, IndexMoves DEF Becomes, Entering, Reloading, Permitted, Saving
<1> QED
  BY <1>1, <1>3, <1>6, <1>7, <1>8, <1>9, QuietMovesKeep

\* Without the death of the plugin only what was done and audited is a success.
LEMMA ReplyKeeps ==
    ASSUME ControlInvariant, NEW c \in Calls, Reply(c) PROVE ControlInvariant'
<1>1. /\ calls[c] # None /\ calls[c].stage = "reply" /\ lock' = None
      /\ UNCHANGED <<build, rollouts, provider, store, requests, starts, faults>>
      /\ calls[c].action \in Commands
  BY Present DEF Reply, At, PlaceOK, Served
<1>2. lock = c
  BY <1>1, Holder DEF Served
<1>3. /\ StatusOf(calls[c].outcome) \in {"ok", "denied", "error"}
      /\ StatusOf(calls[c].outcome) = "ok" => calls[c].outcome = "done"
  BY DEF StatusOf
<1>4. PICK status \in {"ok", "denied", "error"} :
        /\ status = "ok" => calls[c].again \/ calls[c].outcome = "done"
        /\ (To(c, "respond") /\ status = "ok") \/ Answer(c, status)
  <2>1. PICK status \in {StatusOf(calls[c].outcome)} \cup (IF calls[c].again THEN {"ok"} ELSE {}) :
           IF status = "ok" /\ OverHTTP(calls[c].action) THEN To(c, "respond") ELSE Answer(c, status)
    BY DEF Reply
  <2>2. status \in {"ok", "denied", "error"} /\ (status = "ok" => calls[c].again \/ calls[c].outcome = "done")
    BY <1>3, <2>1
  <2> QED
    BY <2>1, <2>2
<1>5. PICK d \in Call :
        \/ /\ Becomes(c, d, "respond", calls[c].outcome, calls[c].audited, calls[c].status)
           /\ status = "ok"
        \/ Becomes(c, d, "answered", calls[c].outcome, calls[c].audited, status)
  BY <1>1, <1>4, Becoming DEF ControlInvariant, Stages
<1>6. Moves(c, d)
  BY <1>1, <1>2, <1>5 DEF Becomes, Moves, Entering, Reloading, Served, Permitted, Saving, rollouts, store
<1>7. PlaceOK(d) /\ AuditOK(d) /\ EffectOK(d)
  BY <1>1, <1>4, <1>5, Present DEF Becomes, Same, PlaceOK, AuditOK, EffectOK, Served, Permitted, Saving
<1>8. IndexOK(d)
  BY <1>1, <1>5, IndexMoves DEF Becomes, Entering, Reloading, Permitted, Saving
<1> QED
  BY <1>1, <1>6, <1>7, <1>8, Present, QuietMovesKeep

\* A dead plugin's command starts again, once, or fails.
LEMMA PluginDiesKeeps ==
    ASSUME ControlInvariant, NEW c \in Calls, PluginDies(c) PROVE ControlInvariant'
<1>1. /\ lock = c
      /\ UNCHANGED <<build, rollouts, provider, store, requests, starts>>
      /\ Fault
  BY DEF PluginDies
<1>2. /\ calls[c] # None /\ calls[c].stage \in Served /\ calls[c] \in Call
      /\ calls[c].stage \notin Entering \cup {"answered"}
      /\ calls[c].action \in Commands
      /\ faults' \in Nat
  BY <1>1, Holder, Present DEF PlaceOK, Served, Permitted, Saving, Entering, Reloading, Fault
<1>3. CASE /\ calls' = [calls EXCEPT ![c].stage = "authorize", ![c].again = TRUE,
                                     ![c].outcome = "none"]
           /\ UNCHANGED lock
  <2> DEFINE d == [calls[c] EXCEPT !.stage = "authorize", !.again = TRUE, !.outcome = "none"]
  <2>1. d \in Call
    BY <1>2 DEF Call, Stages, Served, Outcomes
  <2>2. /\ calls' = [calls EXCEPT ![c] = d] /\ Same(c, d)
        /\ d.stage = "authorize" /\ d.again = TRUE /\ d.outcome = "none"
        /\ d.status = calls[c].status
    BY <1>2, <1>3 DEF Same, Call
  <2>3. PICK e \in Call : e = d
    BY <2>1
  <2> HIDE DEF d
  <2>4. Moves(c, e)
    BY <1>1, <1>3, <2>2, <2>3 DEF Moves, Entering, Reloading, Served, Permitted, Saving, rollouts, store
  <2>5. PlaceOK(e) /\ AuditOK(e) /\ EffectOK(e)
    BY <1>2, <2>2, <2>3, Present DEF Same, PlaceOK, AuditOK, EffectOK, Served, Permitted, Saving
  <2>6. IndexOK(e)
    BY <1>2, <2>2, <2>3, IndexMoves DEF Entering, Reloading, Permitted, Saving
  <2> QED
    BY <1>1, <1>2, <2>4, <2>5, <2>6, QuietMovesKeep
<1>4. CASE lock' = None /\ Answer(c, "error")
  <2>1. PICK d \in Call : Becomes(c, d, "answered", calls[c].outcome, calls[c].audited, "error")
    BY <1>2, <1>4, Becoming DEF ControlInvariant
  <2>2. Moves(c, d)
    BY <1>1, <1>4, <2>1 DEF Becomes, Moves, Entering, Reloading, Served, Permitted, Saving, rollouts, store
  <2>3. PlaceOK(d) /\ AuditOK(d) /\ EffectOK(d)
    BY <1>2, <2>1, Present DEF Becomes, Same, PlaceOK, AuditOK, EffectOK, Served, Permitted, Saving
  <2>4. IndexOK(d)
    BY <1>2, <2>1, IndexMoves DEF Becomes, Entering, Reloading, Permitted, Saving
  <2> QED
    BY <1>1, <1>2, <2>2, <2>3, <2>4, QuietMovesKeep
<1> QED
  BY <1>3, <1>4 DEF PluginDies

LEMMA RespondKeeps ==
    ASSUME ControlInvariant, NEW c \in Calls, Respond(c) PROVE ControlInvariant'
<1>1. /\ calls[c] # None /\ calls[c].stage = "respond" /\ Answer(c, "ok")
      /\ UNCHANGED <<build, rollouts, lock, provider, store, requests, starts, faults>>
  BY DEF Respond, At
<1>2. PICK d \in Call : Becomes(c, d, "answered", calls[c].outcome, calls[c].audited, "ok")
  BY <1>1, Becoming DEF ControlInvariant
<1>3. Moves(c, d)
  BY <1>1, <1>2 DEF Becomes, Moves, Entering, Reloading, Served, Permitted, Saving, rollouts, store
<1>4. PlaceOK(d) /\ AuditOK(d) /\ EffectOK(d)
  BY <1>1, <1>2, Present DEF Becomes, Same, PlaceOK, AuditOK, EffectOK, Served, Permitted, Saving
<1>5. IndexOK(d)
  BY <1>1, <1>2, IndexMoves DEF Becomes, Entering, Reloading, Permitted, Saving
<1> QED
  BY <1>1, <1>3, <1>4, <1>5, Present, QuietMovesKeep

\* Operators of resources.
LEMMA PermitOperatorKeeps ==
    ASSUME ControlInvariant, NEW c \in Calls, PermitOperator(c) PROVE ControlInvariant'
<1>1. /\ calls[c] # None /\ calls[c].stage = "permit"
      /\ UNCHANGED <<build, rollouts, lock, provider, store, requests, starts>>
  BY DEF PermitOperator, At
<1>2. CASE AllowedNow(c) /\ Authorized(c, "change") /\ UNCHANGED faults
  <2>1. PICK d \in Call :
           /\ calls' = [calls EXCEPT ![c] = d]
           /\ Same(c, d)
           /\ d.policies = provider.policies /\ d.identities = provider.identities
           /\ d.stage = "change" /\ d.again = calls[c].again /\ d.outcome = calls[c].outcome
           /\ d.audited = calls[c].audited /\ d.status = calls[c].status
    BY <1>1, <1>2, BecomingAuthorized DEF ControlInvariant, Stages
  <2>2. Moves(c, d)
    BY <1>1, <2>1 DEF Moves, Entering, Reloading, Served, Permitted, Saving, rollouts, store
  <2>3. PlaceOK(d) /\ AuditOK(d) /\ EffectOK(d)
    BY <1>1, <2>1, Present DEF Same, PlaceOK, AuditOK, EffectOK, Served, Permitted, Saving
  <2>4. IndexOK(d)
    BY <1>1, <1>2, <2>1, IndexMoves DEF Entering, Reloading, Permitted, Saving
  <2> QED
    BY <1>1, <1>2, <2>2, <2>3, <2>4, Present, QuietMovesKeep
<1>3. CASE AuditAndAnswer(c, "denied", "denied")
  <2>1. PICK d \in Call, audited \in Outcomes :
          Becomes(c, d, "answered", calls[c].outcome, audited, "denied")
    BY <1>1, <1>3, BecomingAudited DEF ControlInvariant, Outcomes
  <2>2. Moves(c, d)
    BY <1>1, <2>1 DEF Becomes, Moves, Entering, Reloading, Served, Permitted, Saving, rollouts, store
  <2>3. PlaceOK(d) /\ AuditOK(d) /\ EffectOK(d)
    BY <1>1, <2>1, Present DEF Becomes, Same, PlaceOK, AuditOK, EffectOK, Served, Permitted, Saving
  <2>4. IndexOK(d)
    BY <1>1, <2>1, IndexMoves DEF Becomes, Entering, Reloading, Permitted, Saving
  <2>5. faults' \in Nat
    BY <1>1, <1>3, BecomingAudited DEF ControlInvariant, Outcomes
  <2> QED
    BY <1>1, <2>2, <2>3, <2>4, <2>5, QuietMovesKeep
<1> QED
  BY <1>2, <1>3 DEF PermitOperator

LEMMA ChangeResourceKeeps ==
    ASSUME ControlInvariant, NEW c \in Calls, ChangeResource(c) PROVE ControlInvariant'
<1>1. /\ calls[c] # None /\ calls[c].stage = "change" /\ calls[c] \in Call
      /\ UNCHANGED <<build, rollouts, lock, provider, store, requests, starts, faults>>
  BY Present DEF ChangeResource, At
<1>2. \E d \in Call : \/ Becomes(c, d, "note", "done", calls[c].audited, calls[c].status)
                      \/ Becomes(c, d, "answered", calls[c].outcome, calls[c].audited, "error")
  <2>1. CASE calls' = [calls EXCEPT ![c].stage = "note", ![c].outcome = "done"]
    <3> DEFINE d == [calls[c] EXCEPT !.stage = "note", !.outcome = "done"]
    <3>1. d \in Call
      BY <1>1 DEF Call, Stages, Outcomes
    <3>2. Becomes(c, d, "note", "done", calls[c].audited, calls[c].status)
      BY <1>1, <2>1 DEF Becomes, Same, Call
    <3> QED
      BY <3>1, <3>2
  <2>2. CASE Answer(c, "error")
    BY <1>1, <2>2, Becoming DEF ControlInvariant
  <2> QED
    BY <2>1, <2>2 DEF ChangeResource
<1>3. PICK d \in Call : \/ Becomes(c, d, "note", "done", calls[c].audited, calls[c].status)
                        \/ Becomes(c, d, "answered", calls[c].outcome, calls[c].audited, "error")
  BY <1>2
<1>4. Moves(c, d)
  BY <1>1, <1>3 DEF Becomes, Moves, Entering, Reloading, Served, Permitted, Saving, rollouts, store
<1>5. PlaceOK(d) /\ AuditOK(d) /\ EffectOK(d)
  BY <1>1, <1>3, Present DEF Becomes, Same, PlaceOK, AuditOK, EffectOK, Served, Permitted, Saving
<1>6. IndexOK(d)
  BY <1>1, <1>3, IndexMoves DEF Becomes, Entering, Reloading, Permitted, Saving
<1> QED
  BY <1>1, <1>4, <1>5, <1>6, Present, QuietMovesKeep

LEMMA recordOperatorSuccessAuditKeeps ==
    ASSUME ControlInvariant, NEW c \in Calls, recordOperatorSuccessAudit(c) PROVE ControlInvariant'
<1>1. /\ calls[c] # None /\ calls[c].stage = "note" /\ calls[c].outcome = "done"
      /\ calls[c].action = "operate"
      /\ UNCHANGED <<build, rollouts, lock, provider, store, requests, starts>>
  BY Present DEF recordOperatorSuccessAudit, At, AuditOK, PlaceOK
<1>2. PICK status \in {"ok", "error"} : AuditAndAnswer(c, "done", status)
  BY DEF recordOperatorSuccessAudit
<1>3. PICK d \in Call, audited \in Outcomes :
        Becomes(c, d, "answered", calls[c].outcome, audited, status)
  BY <1>1, <1>2, BecomingAudited DEF ControlInvariant, Outcomes
<1>4. Moves(c, d)
  BY <1>1, <1>3 DEF Becomes, Moves, Entering, Reloading, Served, Permitted, Saving, rollouts, store
<1>5. PlaceOK(d) /\ EffectOK(d)
  BY <1>1, <1>3, Present DEF Becomes, Same, PlaceOK, EffectOK, Served, Permitted, Saving
<1>6. d.action \notin Commands
  BY <1>1, <1>3 DEF Becomes, Same, Commands, Rollouts
<1>7. AuditOK(d)
  BY <1>1, <1>3, <1>6 DEF Becomes, Same, AuditOK
<1>8. IndexOK(d)
  BY <1>1, <1>3, IndexMoves DEF Becomes, Entering, Reloading, Permitted, Saving
<1>9. faults' \in Nat
  BY <1>1, <1>2, BecomingAudited DEF ControlInvariant, Outcomes
<1> QED
  BY <1>1, <1>4, <1>5, <1>7, <1>8, <1>9, QuietMovesKeep

-----------------------------------------------------------------------------
(* The steps of the request that holds the host *)

\* What such a step leaves alone, and what it leaves typed.
Holding(c) ==
    /\ calls[c] # None /\ calls[c].stage \in Permitted
    /\ UNCHANGED <<build, lock, provider, manifest, installed, requests, starts>>
    /\ RolloutTypeOK' /\ RolloutsOK'
    /\ overlay' \in [Plugins -> BOOLEAN]
    /\ faults' \in Nat

LEMMA HoldingKeeps ==
    ASSUME ControlInvariant, NEW c \in Calls, Holding(c), NEW d \in Call,
           Becomes(c, d, d.stage, d.outcome, d.audited, d.status), d.stage \in Served,
           d.stage \in Saving \cup {"mark"} => SavingOK(c)',
           PlaceOK(d), AuditOK(d), EffectOK(d)'
    PROVE  ControlInvariant'
<1>1. calls[c] # None /\ calls[c].stage \in Served /\ calls[c].stage \notin Entering \cup {"answered"}
  BY DEF Holding, Served, Permitted, Saving, Entering, Reloading
<1>2. lock = c
  BY <1>1, Holder
<1>3. d.stage \notin Entering /\ d.stage # "answered"
  BY DEF Served, Permitted, Saving, Entering, Reloading
<1>4. Moves(c, d)
  BY <1>2, <1>3 DEF Becomes, Holding, Moves
<1>5. IndexOK(d)
  BY <1>1, <1>3, IndexMoves DEF Becomes, Holding
<1>6. IndexOK(d)'
  BY <1>5 DEF Holding, IndexOK, Decided, Granted, AuthorizeTarget
<1>7. calls' \in [Calls -> Call \cup {None}]
  BY DEF ControlInvariant, ControlTypeOK, Becomes
<1>8. ControlTypeOK'
  BY <1>7 DEF ControlInvariant, ControlTypeOK, Holding, RolloutTypeOK
<1> QED
  BY <1>1, <1>4, <1>6, <1>8, MovesKeep DEF Holding

\* It finishes: what it says was done has been done.
LEMMA FinishingKeeps ==
    ASSUME ControlInvariant, NEW c \in Calls, Holding(c), NEW outcome \in {"done", "failed"},
           Finish(c, outcome),
           \A d \in Call : Same(c, d) /\ outcome = "done" => Effect(d)'
    PROVE  ControlInvariant'
<1>1. calls[c] # None /\ calls[c].stage \in Permitted
  BY DEF Holding
<1>2. PICK d \in Call : Becomes(c, d, "audit", outcome, calls[c].audited, calls[c].status)
  BY <1>1, Becoming DEF ControlInvariant, Outcomes
<1>3. /\ d.stage = "audit" /\ d.outcome = outcome /\ Same(c, d)
      /\ d.audited = calls[c].audited /\ d.status = calls[c].status
  BY <1>2 DEF Becomes
<1>4. PlaceOK(d)
  BY <1>1, <1>3, Present DEF Same, PlaceOK, Served, Permitted, Saving
<1>5. AuditOK(d)
  BY <1>1, <1>3, Present DEF AuditOK, Permitted, Saving
<1>6. EffectOK(d)'
  BY <1>3 DEF EffectOK
<1>7. Becomes(c, d, d.stage, d.outcome, d.audited, d.status) /\ d.stage \in Served
  BY <1>2, <1>3 DEF Served
<1>8. d.stage \notin Saving \cup {"mark"}
  BY <1>3 DEF Saving
<1> QED
  BY <1>4, <1>5, <1>6, <1>7, <1>8, HoldingKeeps

\* It goes on to the step before the last of activate and rollback.
LEMMA GoingOnKeeps ==
    ASSUME ControlInvariant, NEW c \in Calls, Holding(c),
           NEW stage \in {"enable_first", "mark", "unmark"}, To(c, stage),
           calls[c].action = (IF stage = "unmark" THEN "rollback" ELSE "activate"),
           stage = "mark" => overlay'[calls[c].target] /\ manifest' \in since'
    PROVE  ControlInvariant'
<1>1. calls[c] # None /\ calls[c].stage \in Permitted
  BY DEF Holding
<1>2. PICK d \in Call : Becomes(c, d, stage, calls[c].outcome, calls[c].audited, calls[c].status)
  BY <1>1, Becoming DEF ControlInvariant, Stages, Served, Permitted, Saving
<1>3. /\ d.stage = stage /\ d.outcome = calls[c].outcome /\ Same(c, d)
      /\ d.audited = calls[c].audited /\ d.status = calls[c].status
  BY <1>2 DEF Becomes
<1>4. PlaceOK(d)
  BY <1>1, <1>3, Present DEF Same, PlaceOK, Served, Permitted, Saving, Commands, Rollouts
<1>5. AuditOK(d)
  BY <1>1, <1>3, Present DEF AuditOK, Permitted, Saving
<1>6. EffectOK(d)'
  BY <1>3 DEF EffectOK, Same
<1>7. Becomes(c, d, d.stage, d.outcome, d.audited, d.status) /\ d.stage \in Served
  BY <1>2, <1>3 DEF Served, Permitted, Saving
<1>8. ASSUME d.stage \in Saving \cup {"mark"} PROVE SavingOK(c)'
  <2>1. calls'[c] = d
    BY <1>2 DEF Becomes, ControlInvariant, ControlTypeOK
  <2>2. d.stage = "mark" /\ manifest' \in since'
    BY <1>3, <1>8 DEF Saving
  <2> QED
    BY <2>1, <2>2 DEF SavingOK, Saving
<1> QED
  BY <1>4, <1>5, <1>6, <1>7, <1>8, HoldingKeeps

\* Who holds the host acts on a plugin.
LEMMA HolderActs ==
    ASSUME ControlInvariant, NEW c \in Calls, calls[c] # None, calls[c].stage \in Permitted
    PROVE  /\ calls[c].action \in Commands /\ calls[c].target \in Plugins
           /\ RolloutTypeOK /\ RolloutsOK /\ faults \in Nat
           /\ overlay \in [Plugins -> BOOLEAN]
BY Present DEF PlaceOK, Served, ControlInvariant, ControlTypeOK, RolloutTypeOK

\* A change of the overlay.
LEMMA OverlayHolding ==
    ASSUME ControlInvariant, NEW c \in Calls, calls[c] # None, calls[c].stage \in Permitted,
           UNCHANGED <<build, heads, saving, storedHeads, lastOperation, lock, provider, manifest,
                       installed, requests, starts>>,
           since' = since \/ since' = {manifest},
           NEW enabled \in BOOLEAN,
           \/ overlay' = [overlay EXCEPT ![calls[c].target] = enabled] /\ UNCHANGED faults
           \/ UNCHANGED overlay /\ Fault
    PROVE  Holding(c)
<1>1. overlay' \in [Plugins -> BOOLEAN] /\ faults' \in Nat
  BY HolderActs DEF Fault
<1>2. RolloutTypeOK' /\ RolloutsOK'
  BY HolderActs DEF RolloutTypeOK, RolloutsOK
<1> QED
  BY <1>1, <1>2 DEF Holding

LEMMA SetEnabledKeeps ==
    ASSUME ControlInvariant, NEW c \in Calls, SetEnabled(c) PROVE ControlInvariant'
<1>1. /\ calls[c] # None /\ calls[c].stage \in Permitted
      /\ calls[c].action \in {"enable", "disable"}
      /\ UNCHANGED <<build, heads, saving, storedHeads, lastOperation, since, lock, provider,
                     manifest, installed, requests, starts>>
  BY DEF SetEnabled, At, Permitted, rollouts
<1>2. CASE /\ overlay' = [overlay EXCEPT ![calls[c].target] = (calls[c].action = "enable")]
           /\ Finish(c, "done")
           /\ UNCHANGED faults
  <2>1. overlay'[calls[c].target] = (calls[c].action = "enable")
    BY <1>1, <1>2, HolderActs
  <2>2. \A d \in Call : Same(c, d) => Effect(d)'
    BY <1>1, <2>1 DEF Same, Effect
  <2>3. Holding(c)
    BY <1>1, <1>2, OverlayHolding
  <2> QED
    BY <1>2, <2>2, <2>3, FinishingKeeps
<1>3. CASE Fault /\ Finish(c, "failed") /\ UNCHANGED overlay
  <2>1. Holding(c)
    BY <1>1, <1>3, OverlayHolding
  <2> QED
    BY <1>3, <2>1, FinishingKeeps
<1> QED
  BY <1>2, <1>3 DEF SetEnabled

-----------------------------------------------------------------------------
(* The calls of the rollout manager *)

\* What such a call leaves alone.
Calling(c) ==
    /\ calls[c] # None /\ calls[c].stage \in Permitted /\ calls[c].action \in Rollouts
    /\ UNCHANGED <<build, lock, provider, store, requests, starts>>

\* What it decides is to be saved; a head that drifted is replaced in memory at once.
LEMMA SaveKeeps ==
    ASSUME ControlInvariant, NEW c \in Calls, Calling(c), faults' \in Nat,
           NEW record \in Record, RecordOK(record),
           NEW head \in RolloutHead \cup {None}, head # None => HeadOK(head),
           NEW outcome \in {"done", "failed"}, Save(c, record, head, outcome),
           outcome = "done" => head # None /\ Intended(calls[c], head),
           \/ heads' = heads /\ (head # None /\ head.status = "activated" => Marks(c, head))
           \/ /\ heads' = [heads EXCEPT ![calls[c].target] = Fresh]
              /\ head # None => head.status # "activated"
    PROVE  ControlInvariant'
<1>1. /\ calls[c] # None /\ calls[c].stage \in Permitted /\ calls[c].action \in Rollouts
      /\ calls[c] \in Call /\ calls \in [Calls -> Call \cup {None}]
      /\ saving \in [Calls -> [record : Record, head : RolloutHead \cup {None}]]
      /\ UNCHANGED <<build, lock, provider, overlay, manifest, installed, requests, starts>>
      /\ UNCHANGED <<storedHeads, lastOperation, since>>
  BY DEF Calling, ControlInvariant, ControlTypeOK, store, Save
<1>2. PICK d \in Call : d = [calls[c] EXCEPT !.stage = "record", !.outcome = outcome]
  BY <1>1 DEF Call, Stages, Served, Permitted, Saving, Outcomes
<1>3. /\ d.stage = "record" /\ d.outcome = outcome /\ Same(c, d)
      /\ d.audited = calls[c].audited /\ d.status = calls[c].status
      /\ d.policies = calls[c].policies /\ d.identities = calls[c].identities
      /\ d.again = calls[c].again
  BY <1>1, <1>2 DEF Same, Call
<1>4. /\ calls' = [calls EXCEPT ![c] = d]
      /\ saving' = [saving EXCEPT ![c] = [record |-> record, head |-> head]]
  BY <1>1, <1>2 DEF Save
<1>5. /\ calls'[c] = d /\ saving'[c].record = record /\ saving'[c].head = head
      /\ saving' \in [Calls -> [record : Record, head : RolloutHead \cup {None}]]
  BY <1>1, <1>4
<1>6. Becomes(c, d, d.stage, d.outcome, d.audited, d.status) /\ d.stage \in Served
  BY <1>3, <1>4 DEF Becomes, Served, Permitted, Saving
<1>7. HeadOK(Fresh) /\ Fresh \in RolloutHead
  BY HolderActs, <1>1, FreshSound
<1>8. /\ heads' \in [Plugins -> RolloutHead \cup {None}]
      /\ \A p \in Plugins : heads'[p] # None => HeadOK(heads'[p])
  BY <1>1, <1>7, HolderActs DEF RolloutTypeOK, RolloutsOK
<1>9. RolloutTypeOK'
  BY <1>1, <1>5, <1>8, HolderActs DEF RolloutTypeOK
<1>10. RolloutsOK'
  BY <1>1, <1>8, HolderActs DEF RolloutsOK
<1>11. Holding(c)
  BY <1>1, <1>9, <1>10, HolderActs DEF Holding
<1>12. PlaceOK(d)
  BY <1>1, <1>3, Present DEF PlaceOK, Same, Served, Permitted, Saving
<1>13. AuditOK(d)
  BY <1>1, <1>3, Present DEF AuditOK, Permitted, Saving
<1>14. EffectOK(d)'
  BY <1>3 DEF EffectOK
<1>15. SavingOK(c)'
  <2>1. d.target = calls[c].target /\ d.action = calls[c].action
    BY <1>3 DEF Same
  <2>2. ASSUME head # None, head.status = "activated" PROVE Marks(c, head)'
    <3>1. heads' = heads /\ Marks(c, head)
      BY <2>2
    <3> QED
      BY <1>1, <1>5, <2>1, <3>1 DEF Marks, IsPrepared
  <2>3. ASSUME d.outcome = "done" PROVE head # None /\ Intended(d, head)
    BY <1>3, <2>1, <2>3 DEF Intended
  <2>4. RecordOK(saving'[c].record) /\ (saving'[c].head # None => HeadOK(saving'[c].head))
    BY <1>5
  <2>5. /\ calls'[c].stage = "record"
        /\ calls'[c].outcome = "done"
              => saving'[c].head # None /\ Intended(calls'[c], saving'[c].head)
    BY <1>3, <1>5, <2>3
  <2>6. saving'[c].head # None /\ saving'[c].head.status = "activated"
          => Marks(c, saving[c].head)'
    BY <1>5, <2>2 DEF Marks
  <2> QED
    BY <2>4, <2>5, <2>6 DEF SavingOK, RecordOK, HeadOK, HeadSound, IsPrepared, Rebuilt, Intended
<1> QED
  BY <1>2, <1>6, <1>11, <1>12, <1>13, <1>14, <1>15, HoldingKeeps

\* It changes nothing.
LEMMA IdleHolding ==
    ASSUME ControlInvariant, NEW c \in Calls, Calling(c), UNCHANGED <<rollouts, faults>>
    PROVE  Holding(c)
<1>1. /\ calls[c] # None /\ calls[c].stage \in Permitted
      /\ UNCHANGED <<build, lock, provider, overlay, manifest, installed, requests, starts>>
      /\ UNCHANGED <<heads, saving, storedHeads, lastOperation, since, faults>>
  BY DEF Calling, rollouts, store
<1>2. RolloutTypeOK' /\ RolloutsOK'
  BY <1>1, HolderActs DEF RolloutTypeOK, RolloutsOK
<1> QED
  BY <1>1, <1>2, HolderActs DEF Holding

\* A refused activation or canary leaves the head, or takes that of the preflight.
LEMMA RefuseRolloutKeeps ==
    ASSUME ControlInvariant, NEW c \in Calls, Calling(c), RefuseRollout(c)
    PROVE  ControlInvariant'
<1> DEFINE p == calls[c].target
<1>1. p \in Plugins /\ RolloutTypeOK /\ RolloutsOK /\ faults \in Nat
  BY HolderActs DEF Calling
<1>2. faults' \in Nat
  BY <1>1 DEF RefuseRollout, Fault
<1>3. NoRecord \in Record /\ RecordOK(NoRecord)
  BY RecordSound
<1>4. CASE Save(c, NoRecord, None, "failed") /\ heads' = heads
  BY <1>2, <1>3, <1>4, SaveKeeps
<1>5. CASE /\ heads[p] # None
           /\ Save(c, rolloutRecordFromHead(heads[p]), None, "failed") /\ heads' = heads
  <2>1. /\ rolloutRecordFromHead(heads[p]) \in Record
        /\ RecordOK(rolloutRecordFromHead(heads[p]))
    BY <1>1, <1>5, PresentHeads, RecordSound
  <2> QED
    BY <1>2, <1>5, <2>1, SaveKeeps
<1>6. CASE SaveHead(c, Fresh, "failed") /\ heads' = [heads EXCEPT ![p] = Fresh]
  <2>1. /\ Fresh \in RolloutHead /\ HeadOK(Fresh) /\ Fresh.status # "activated"
        /\ rolloutRecordFromHead(Fresh) \in Record /\ RecordOK(rolloutRecordFromHead(Fresh))
    BY <1>1, FreshSound, RecordSound
  <2>2. Save(c, rolloutRecordFromHead(Fresh), Fresh, "failed")
    BY <1>6 DEF SaveHead
  <2> QED
    BY <1>2, <1>6, <2>1, <2>2, SaveKeeps
<1> QED
  BY <1>4, <1>5, <1>6 DEF RefuseRollout

LEMMA RefuseRollbackKeeps ==
    ASSUME ControlInvariant, NEW c \in Calls, Calling(c), RefuseRollback(c)
    PROVE  ControlInvariant'
<1>1. CASE Save(c, NoRecord, None, "failed") /\ heads' = heads /\ UNCHANGED faults
  <2>1. faults' \in Nat
    BY <1>1, HolderActs DEF Calling
  <2> QED
    BY <1>1, <2>1, RecordSound, SaveKeeps
<1>2. CASE Finish(c, "failed") /\ UNCHANGED <<rollouts, faults>>
  BY <1>2, IdleHolding, FinishingKeeps
<1> QED
  BY <1>1, <1>2 DEF RefuseRollback

\* A rejected candidate is a failed command.
LEMMA PrepareKeeps ==
    ASSUME ControlInvariant, NEW c \in Calls, Prepare(c) PROVE ControlInvariant'
<1>1. Calling(c) /\ calls[c].action = "prepare" /\ heads' = heads
  BY DEF Prepare, At, Permitted, Calling, Rollouts
<1>2. RolloutTypeOK /\ RolloutsOK /\ faults \in Nat
  BY <1>1, HolderActs DEF Calling
<1>3. faults' \in Nat
  BY <1>2 DEF Prepare, Fault
<1>4. CASE SaveHead(c, Fresh, IF Fresh.status = "rejected" THEN "failed" ELSE "done")
  <2>1. PICK outcome \in {"done", "failed"} :
          /\ Save(c, rolloutRecordFromHead(Fresh), Fresh, outcome)
          /\ outcome = "done" => Fresh.status = "prepared"
    BY <1>2, <1>4, FreshSound DEF SaveHead
  <2>2. /\ Fresh \in RolloutHead /\ HeadOK(Fresh) /\ Fresh.status # "activated"
        /\ rolloutRecordFromHead(Fresh) \in Record /\ RecordOK(rolloutRecordFromHead(Fresh))
        /\ Fresh # None
    BY <1>2, FreshSound, RecordSound, NothingIsNone
  <2>3. outcome = "done" => Intended(calls[c], Fresh)
    BY <1>1, <2>1 DEF Intended
  <2> QED
    BY <1>1, <1>3, <2>1, <2>2, <2>3, SaveKeeps
<1>5. CASE Save(c, NoRecord, None, "failed")
  BY <1>1, <1>3, <1>5, RecordSound, SaveKeeps
<1> QED
  BY <1>4, <1>5 DEF Prepare

LEMMA CanaryKeeps ==
    ASSUME ControlInvariant, NEW c \in Calls, Canary(c) PROVE ControlInvariant'
<1> DEFINE p == calls[c].target
<1>1. Calling(c) /\ calls[c].action = "canary"
  BY DEF Canary, At, Permitted, Calling, Rollouts
<1>2. p \in Plugins /\ RolloutTypeOK /\ RolloutsOK /\ faults \in Nat
  BY <1>1, HolderActs DEF Calling
<1>3. CASE /\ validatePreparedState(p) /\ SaveHead(c, canaried(heads[p]), "done")
           /\ UNCHANGED <<heads, faults>>
  <2> DEFINE next == canaried(heads[p])
  <2>1. heads[p] \in RolloutHead /\ HeadOK(heads[p]) /\ IsPrepared(heads[p])
    BY <1>2, <1>3, ChecksMean
  <2>2. next \in RolloutHead /\ HeadOK(next) /\ next.status = "canarying"
    BY <2>1, CanarySound
  <2>3. Save(c, rolloutRecordFromHead(next), next, "done")
    BY <1>3 DEF SaveHead
  <2> HIDE DEF next
  <2>4. /\ rolloutRecordFromHead(next) \in Record /\ RecordOK(rolloutRecordFromHead(next))
        /\ next # None
    BY <2>2, RecordSound, NothingIsNone
  <2>5. Intended(calls[c], next) /\ next.status # "activated"
    BY <1>1, <2>2 DEF Intended
  <2> QED
    BY <1>1, <1>2, <1>3, <2>2, <2>3, <2>4, <2>5, SaveKeeps
<1>4. CASE Finish(c, "failed") /\ UNCHANGED <<rollouts, faults>>
  BY <1>1, <1>4, IdleHolding, FinishingKeeps
<1>5. CASE RefuseRollout(c)
  BY <1>1, <1>5, RefuseRolloutKeeps
<1> QED
  BY <1>3, <1>4, <1>5 DEF Canary

LEMMA CanActivateKeeps ==
    ASSUME ControlInvariant, NEW c \in Calls, CanActivate(c) PROVE ControlInvariant'
<1>1. /\ calls[c] # None /\ calls[c].stage = "can_activate"
      /\ UNCHANGED <<build, lock, provider, store, requests, starts>>
  BY DEF CanActivate, At
<1>2. calls[c].action = "activate"
  BY <1>1, Present DEF PlaceOK
<1>3. Calling(c)
  BY <1>1, <1>2 DEF Calling, Permitted, Rollouts
<1>4. CASE To(c, "enable_first") /\ UNCHANGED <<rollouts, faults>>
  BY <1>2, <1>3, <1>4, IdleHolding, GoingOnKeeps
<1>5. CASE RefuseRollout(c)
  BY <1>3, <1>5, RefuseRolloutKeeps
<1> QED
  BY <1>4, <1>5 DEF CanActivate

LEMMA EnableFirstKeeps ==
    ASSUME ControlInvariant, NEW c \in Calls, EnableFirst(c) PROVE ControlInvariant'
<1>1. /\ calls[c] # None /\ calls[c].stage \in Permitted /\ calls[c].stage = "enable_first"
      /\ UNCHANGED <<build, heads, saving, storedHeads, lastOperation, lock, provider, manifest,
                     installed, requests, starts>>
  BY DEF EnableFirst, At, Permitted
<1>2. CASE /\ overlay' = [overlay EXCEPT ![calls[c].target] = TRUE]
           /\ since' = {manifest}
           /\ To(c, "mark")
           /\ UNCHANGED faults
  <2>1. overlay'[calls[c].target] /\ manifest' \in since'
    BY <1>1, <1>2, HolderActs
  <2>2. Holding(c)
    BY <1>1, <1>2, OverlayHolding
  <2>3. calls[c].action = "activate"
    BY <1>1, Present DEF PlaceOK
  <2> QED
    BY <1>2, <2>1, <2>2, <2>3, GoingOnKeeps
<1>3. CASE Fault /\ Finish(c, "failed") /\ UNCHANGED <<overlay, since>>
  <2>1. Holding(c)
    BY <1>1, <1>3, OverlayHolding
  <2> QED
    BY <1>3, <2>1, FinishingKeeps
<1> QED
  BY <1>2, <1>3 DEF EnableFirst

\* The plugin enabled in the step before is still enabled.
LEMMA ActivateKeeps ==
    ASSUME ControlInvariant, NEW c \in Calls, Activate(c) PROVE ControlInvariant'
<1> DEFINE p == calls[c].target
<1>1. /\ calls[c] # None /\ calls[c].stage = "mark"
      /\ UNCHANGED <<build, lock, provider, store, requests, starts>>
  BY DEF Activate, At
<1>2. calls[c].action = "activate" /\ overlay[p] /\ manifest \in since
  BY <1>1, Present DEF PlaceOK, EffectOK, SavingOK
<1>3. Calling(c)
  BY <1>1, <1>2 DEF Calling, Permitted, Rollouts
<1>4. p \in Plugins /\ RolloutTypeOK /\ RolloutsOK /\ faults \in Nat
  BY <1>3, HolderActs DEF Calling
<1>5. CASE /\ validatePreparedState(p) /\ SaveHead(c, activated(heads[p]), "done")
           /\ UNCHANGED <<heads, faults>>
  <2> DEFINE next == activated(heads[p])
  <2>1. /\ heads[p] \in RolloutHead /\ HeadOK(heads[p]) /\ IsPrepared(heads[p])
        /\ heads[p].stable.version = rolloutSnapshotStateFromManifest(manifest).version
    BY <1>4, <1>5, ChecksMean
  <2>2. /\ next \in RolloutHead /\ HeadOK(next) /\ next.status = "activated"
        /\ next.stable = heads[p].candidate
    BY <2>1, ActivationSound
  <2>3. Save(c, rolloutRecordFromHead(next), next, "done")
    BY <1>5 DEF SaveHead
  <2> HIDE DEF next
  <2>4. /\ rolloutRecordFromHead(next) \in Record /\ RecordOK(rolloutRecordFromHead(next))
        /\ next # None /\ heads[p] # None
    BY <2>1, <2>2, RecordSound, NothingIsNone
  <2>5. Intended(calls[c], next)
    BY <1>2, <2>2 DEF Intended
  <2>6. Marks(c, next)
    BY <1>2, <2>1, <2>2, <2>4 DEF Marks
  <2> QED
    BY <1>3, <1>4, <1>5, <2>2, <2>3, <2>4, <2>5, <2>6, SaveKeeps
<1>6. CASE RefuseRollout(c)
  BY <1>3, <1>6, RefuseRolloutKeeps
<1> QED
  BY <1>5, <1>6 DEF Activate

LEMMA CanRollbackKeeps ==
    ASSUME ControlInvariant, NEW c \in Calls, CanRollback(c) PROVE ControlInvariant'
<1>1. /\ calls[c] # None /\ calls[c].stage = "can_rollback"
      /\ UNCHANGED <<build, lock, provider, store, requests, starts>>
  BY DEF CanRollback, At
<1>2. calls[c].action = "rollback"
  BY <1>1, Present DEF PlaceOK
<1>3. Calling(c)
  BY <1>1, <1>2 DEF Calling, Permitted, Rollouts
<1>4. CASE To(c, "unmark") /\ UNCHANGED <<rollouts, faults>>
  BY <1>2, <1>3, <1>4, IdleHolding, GoingOnKeeps
<1>5. CASE RefuseRollback(c)
  BY <1>3, <1>5, RefuseRollbackKeeps
<1> QED
  BY <1>4, <1>5 DEF CanRollback

LEMMA RollbackKeeps ==
    ASSUME ControlInvariant, NEW c \in Calls, Rollback(c) PROVE ControlInvariant'
<1> DEFINE p == calls[c].target
<1>1. /\ calls[c] # None /\ calls[c].stage = "unmark"
      /\ UNCHANGED <<build, lock, provider, store, requests, starts>>
  BY DEF Rollback, At
<1>2. calls[c].action = "rollback"
  BY <1>1, Present DEF PlaceOK
<1>3. Calling(c)
  BY <1>1, <1>2 DEF Calling, Permitted, Rollouts
<1>4. p \in Plugins /\ RolloutTypeOK /\ RolloutsOK /\ faults \in Nat
  BY <1>3, HolderActs DEF Calling
<1>5. CASE /\ heads[p] # None /\ SaveHead(c, rolledBack(heads[p]), "done")
           /\ UNCHANGED <<heads, faults>>
  <2> DEFINE next == rolledBack(heads[p])
  <2>1. next \in RolloutHead /\ HeadOK(next) /\ next.status = "rolled_back"
    BY <1>4, <1>5, PresentHeads, RollbackSound
  <2>2. Save(c, rolloutRecordFromHead(next), next, "done")
    BY <1>5 DEF SaveHead
  <2> HIDE DEF next
  <2>3. /\ rolloutRecordFromHead(next) \in Record /\ RecordOK(rolloutRecordFromHead(next))
        /\ next # None
    BY <2>1, RecordSound, NothingIsNone
  <2>4. Intended(calls[c], next) /\ next.status # "activated"
    BY <1>2, <2>1 DEF Intended
  <2> QED
    BY <1>3, <1>4, <1>5, <2>1, <2>2, <2>3, <2>4, SaveKeeps
<1>6. CASE RefuseRollback(c)
  BY <1>3, <1>6, RefuseRollbackKeeps
<1> QED
  BY <1>5, <1>6 DEF Rollback

\* The record is saved or lost; the head, if there is one, is next.
LEMMA persistOperationResultKeeps ==
    ASSUME ControlInvariant, NEW c \in Calls, persistOperationResult(c) PROVE ControlInvariant'
<1> DEFINE p == calls[c].target
<1>1. /\ calls[c] # None /\ calls[c].stage = "record" /\ calls[c].stage \in Permitted
      /\ UNCHANGED <<build, heads, storedHeads, lock, provider, store, requests, starts>>
  BY DEF persistOperationResult, At, Permitted, Saving
<1>2. /\ UNCHANGED <<build, heads, storedHeads, lock, provider, overlay, manifest, installed,
                     requests, starts>>
  BY <1>1 DEF store
<1>3. /\ calls[c].action \in Rollouts /\ SavingOK(c)
      /\ RecordOK(saving[c].record)
      /\ calls[c].outcome = "done" => saving[c].head # None
  BY <1>1, Present DEF PlaceOK, SavingOK, Saving
<1>4. /\ p \in Plugins /\ RolloutTypeOK /\ RolloutsOK /\ faults \in Nat
      /\ overlay \in [Plugins -> BOOLEAN]
  BY <1>1, HolderActs
<1>5. saving[c] \in [record : Record, head : RolloutHead \cup {None}]
  BY <1>4 DEF RolloutTypeOK
<1>6. PICK r \in Record : r = saving[c].record /\ RecordOK(r)
  BY <1>3, <1>5
<1>7. lastOperation' \in {lastOperation, [lastOperation EXCEPT ![p] = r]} /\ faults' \in Nat
  BY <1>4, <1>6 DEF persistOperationResult, Fault
<1>8. /\ lastOperation' \in [Plugins -> Record \cup {None}]
      /\ \A q \in Plugins : lastOperation'[q] # None => RecordOK(lastOperation'[q])
  BY <1>4, <1>6, <1>7 DEF RolloutTypeOK, RolloutsOK
<1>9. RolloutsOK'
  BY <1>2, <1>4, <1>8 DEF RolloutsOK
<1>10. CASE saving[c].head = None /\ Saved(c)
  <2>1. PICK d \in Call : Becomes(c, d, "audit", calls[c].outcome, calls[c].audited, calls[c].status)
    BY <1>1, <1>10, Becoming DEF Saved, ControlInvariant, Stages, Served
  <2>2. /\ d.stage = "audit" /\ d.outcome = calls[c].outcome /\ Same(c, d)
        /\ d.audited = calls[c].audited /\ d.status = calls[c].status
    BY <2>1 DEF Becomes
  <2>3. NothingToSave \in [record : Record, head : RolloutHead \cup {None}]
    BY RecordSound DEF NothingToSave
  <2>4. RolloutTypeOK'
    BY <1>2, <1>4, <1>8, <1>10, <2>3 DEF RolloutTypeOK, Saved
  <2>5. Holding(c)
    BY <1>1, <1>2, <1>4, <1>7, <1>9, <2>4 DEF Holding
  <2>6. PlaceOK(d) /\ AuditOK(d)
    BY <1>1, <2>2, Present DEF Same, PlaceOK, AuditOK, Served, Permitted, Saving
  <2>7. EffectOK(d)'
    BY <1>3, <1>10, <2>2 DEF EffectOK
  <2>8. /\ Becomes(c, d, d.stage, d.outcome, d.audited, d.status) /\ d.stage \in Served
        /\ d.stage \notin Saving \cup {"mark"}
    BY <2>1, <2>2 DEF Served, Saving
  <2> QED
    BY <2>5, <2>6, <2>7, <2>8, HoldingKeeps
<1>11. CASE saving[c].head # None /\ To(c, "head") /\ UNCHANGED <<saving, since>>
  <2>1. PICK d \in Call : Becomes(c, d, "head", calls[c].outcome, calls[c].audited, calls[c].status)
    BY <1>1, <1>11, Becoming DEF ControlInvariant, Stages, Served, Permitted, Saving
  <2>2. /\ d.stage = "head" /\ d.outcome = calls[c].outcome /\ Same(c, d)
        /\ d.audited = calls[c].audited /\ d.status = calls[c].status
    BY <2>1 DEF Becomes
  <2>3. RolloutTypeOK'
    BY <1>2, <1>4, <1>8, <1>11 DEF RolloutTypeOK
  <2>4. Holding(c)
    BY <1>1, <1>2, <1>4, <1>7, <1>9, <2>3 DEF Holding
  <2>5. PlaceOK(d) /\ AuditOK(d)
    BY <1>1, <2>2, Present DEF Same, PlaceOK, AuditOK, Served, Permitted, Saving
  <2>6. EffectOK(d)'
    BY <2>2 DEF EffectOK
  <2>7. Becomes(c, d, d.stage, d.outcome, d.audited, d.status) /\ d.stage \in Served
    BY <2>1, <2>2 DEF Served, Permitted, Saving
  <2>8. calls'[c] = d
    BY <2>1 DEF Becomes, ControlInvariant, ControlTypeOK
  <2>9. SavingOK(c)'
    <3>1. calls[c].stage \in Saving
      BY <1>1 DEF Saving
    <3> QED
      BY <1>2, <1>3, <1>11, <2>2, <2>8, <3>1
         DEF SavingOK, Same, Marks, Intended, RecordOK, HeadOK, HeadSound, IsPrepared, Rebuilt
  <2> QED
    BY <2>4, <2>5, <2>6, <2>7, <2>9, HoldingKeeps
<1> QED
  BY <1>10, <1>11 DEF persistOperationResult

\* The head is the one in memory; what the command was for is done.
LEMMA persistHeadKeeps ==
    ASSUME ControlInvariant, NEW c \in Calls, persistHead(c) PROVE ControlInvariant'
<1> DEFINE p == calls[c].target
<1>1. /\ calls[c] # None /\ calls[c].stage = "head" /\ calls[c].stage \in Permitted
      /\ UNCHANGED <<build, lastOperation, lock, provider, store, requests, starts>>
      /\ Saved(c)
  BY DEF persistHead, At, Permitted, Saving
<1>2. UNCHANGED <<build, lastOperation, lock, provider, overlay, manifest, installed, requests, starts>>
  BY <1>1 DEF store
<1>3. /\ calls[c].action \in Rollouts /\ saving[c].head # None /\ HeadOK(saving[c].head)
      /\ saving[c].head.status = "activated" => overlay[p]
      /\ calls[c].outcome = "done" => Intended(calls[c], saving[c].head)
  BY <1>1, Present DEF PlaceOK, SavingOK, Saving, Marks
<1>4. /\ p \in Plugins /\ RolloutTypeOK /\ RolloutsOK /\ faults \in Nat
      /\ overlay \in [Plugins -> BOOLEAN]
  BY <1>1, HolderActs
<1>5. PICK h \in RolloutHead : h = saving[c].head
  BY <1>3, <1>4 DEF RolloutTypeOK
<1>6. /\ heads' = [heads EXCEPT ![p] = h]
      /\ storedHeads' \in {storedHeads, [storedHeads EXCEPT ![p] = h]}
      /\ faults' \in Nat
  BY <1>4, <1>5 DEF persistHead, Fault
<1>7. heads'[p] = h
  BY <1>4, <1>6 DEF RolloutTypeOK
<1>8. HeadOK(h)
  BY <1>3, <1>5
<1>9. /\ heads' \in [Plugins -> RolloutHead \cup {None}]
      /\ storedHeads' \in [Plugins -> RolloutHead \cup {None}]
      /\ \A q \in Plugins : heads'[q] # None => HeadOK(heads'[q])
      /\ \A q \in Plugins : storedHeads'[q] # None => HeadOK(storedHeads'[q])
  BY <1>4, <1>6, <1>8 DEF RolloutTypeOK, RolloutsOK
<1>10. NothingToSave \in [record : Record, head : RolloutHead \cup {None}]
  BY RecordSound DEF NothingToSave
<1>11. RolloutTypeOK' /\ RolloutsOK'
  BY <1>1, <1>2, <1>4, <1>9, <1>10 DEF RolloutTypeOK, RolloutsOK, Saved
<1>12. Holding(c)
  BY <1>1, <1>2, <1>4, <1>6, <1>11 DEF Holding
<1>13. PICK d \in Call : Becomes(c, d, "audit", calls[c].outcome, calls[c].audited, calls[c].status)
  BY <1>1, Becoming DEF Saved, ControlInvariant, Stages, Served
<1>14. /\ d.stage = "audit" /\ d.outcome = calls[c].outcome /\ Same(c, d)
       /\ d.audited = calls[c].audited /\ d.status = calls[c].status
  BY <1>13 DEF Becomes
<1>15. PlaceOK(d) /\ AuditOK(d)
  BY <1>1, <1>14, Present DEF Same, PlaceOK, AuditOK, Served, Permitted, Saving
<1>16. ASSUME d.outcome = "done" PROVE Effect(d)'
  <2>1. d.action = calls[c].action /\ d.target = p /\ Intended(calls[c], h)
    BY <1>3, <1>5, <1>14, <1>16 DEF Same
  <2>2. heads'[d.target] = h /\ overlay'[d.target] = overlay[p]
    BY <1>2, <1>7, <2>1
  <2> QED
    BY <1>3, <1>5, <2>1, <2>2 DEF Effect, Intended, Rollouts
<1>17. EffectOK(d)'
  BY <1>14, <1>16 DEF EffectOK
<1>18. /\ Becomes(c, d, d.stage, d.outcome, d.audited, d.status) /\ d.stage \in Served
       /\ d.stage \notin Saving \cup {"mark"}
  BY <1>13, <1>14 DEF Served, Saving
<1> QED
  BY <1>12, <1>15, <1>17, <1>18, HoldingKeeps

-----------------------------------------------------------------------------
(* The requests that come, reload and are closed *)

\* What a request brought about, and its decision, outlast the steps of others.
LEMMA EffectStays ==
    ASSUME NEW k \in Calls, calls'[k] = calls[k], UNCHANGED <<heads, overlay>>,
           EffectOK(calls[k])
    PROVE  EffectOK(calls[k])'
BY DEF EffectOK, Effect

LEMMA DecisionStays ==
    ASSUME NEW k \in Calls, calls'[k] = calls[k], installed' = installed, Decided(calls[k])
    PROVE  Decided(calls[k])'
BY DEF Decided, Granted, AuthorizeTarget

\* A step of a request that does not hold the host, or has not come, and that may
\* put another snapshot in place.
LEMMA OutsideKeeps ==
    ASSUME ControlInvariant, NEW c \in Calls, NEW v \in Call \cup {None},
           calls' = [calls EXCEPT ![c] = v],
           calls[c] # None => calls[c].stage \notin Served,
           v # None => v.stage \notin Served,
           UNCHANGED <<build, rollouts, lock, store, starts, faults>>, requests' \in Nat,
           provider' \in [policies : Nat, identities : Nat], ProviderOK',
           \/ UNCHANGED provider
           \/ \A k \in Calls : calls[k] # None =>
                  provider'.policies >= calls[k].floor /\ provider'.identities >= calls[k].floor,
           \A k \in Calls : v # None /\ calls[k] # None =>
              /\ v.stage \in Reloading => v.policies >= calls[k].floor
              /\ calls[k].stage \in Reloading => calls[k].policies >= v.floor,
           v # None /\ v.stage \in Reloading => v.policies >= v.floor,
           v # None => PlaceOK(v) /\ AuditOK(v) /\ EffectOK(v) /\ IndexOK(v)'
    PROVE  ControlInvariant'
<1>1. calls \in [Calls -> Call \cup {None}] /\ lock \in Calls \cup {None}
  BY DEF ControlInvariant, ControlTypeOK
<1>2. \A k \in Calls : calls'[k] = IF k = c THEN v ELSE calls[k]
  BY <1>1
<1>3. UNCHANGED <<build, heads, saving, storedHeads, lastOperation, since, lock, overlay, manifest,
                  installed, starts, faults>>
  BY DEF rollouts, store
<1>4. calls' \in [Calls -> Call \cup {None}]
  BY <1>1
<1>5. ControlTypeOK'
  BY <1>3, <1>4 DEF ControlInvariant, ControlTypeOK
<1>6. RolloutsOK'
  BY <1>3 DEF ControlInvariant, RolloutsOK
<1>7. LockOK'
  <2>1. lock # c
    BY CallsAssumption DEF ControlInvariant, LockOK
  <2> QED
    BY <1>1, <1>2, <1>3, <2>1 DEF ControlInvariant, LockOK
<1>8. FloorsOK'
  BY <1>2 DEF ControlInvariant, FloorsOK
<1>9. ASSUME NEW k \in Calls, calls'[k] # None
      PROVE  (PlaceOK(calls[k]) /\ AuditOK(calls[k]) /\ EffectOK(calls[k]) /\ IndexOK(calls[k]))'
  <2>1. CASE k = c
    <3>1. calls'[k] = v /\ v # None
      BY <1>2, <1>9, <2>1
    <3>2. (PlaceOK(calls[k]) /\ AuditOK(calls[k]))'
      BY <3>1 DEF PlaceOK, AuditOK
    <3>3. EffectOK(calls[k])'
      BY <1>3, <3>1 DEF EffectOK, Effect
    <3>4. IndexOK(calls[k])'
      BY <3>1 DEF IndexOK, Decided, Granted, AuthorizeTarget
    <3> QED
      BY <3>2, <3>3, <3>4
  <2>2. CASE k # c
    <3>1. calls'[k] = calls[k] /\ calls[k] # None
      BY <1>2, <1>9, <2>2
    <3>2. PlaceOK(calls[k]) /\ AuditOK(calls[k]) /\ EffectOK(calls[k]) /\ IndexOK(calls[k])
      BY <3>1, Present
    <3>3. (PlaceOK(calls[k]) /\ AuditOK(calls[k]))'
      BY <3>1, <3>2 DEF PlaceOK, AuditOK
    <3>4. EffectOK(calls[k])'
      <4>1. UNCHANGED <<heads, overlay>>
        BY <1>3
      <4> QED
        BY <3>1, <3>2, <4>1, EffectStays
    <3>5. Decided(calls[k]) => Decided(calls[k])'
      <4>1. installed' = installed
        BY <1>3
      <4> QED
        BY <3>1, <4>1, DecisionStays
    <3>6. calls[k].stage \notin Entering \cup {"answered"} =>
            provider'.policies >= calls[k].floor /\ provider'.identities >= calls[k].floor
      BY <3>1, <3>2 DEF IndexOK
    <3>7. IndexOK(calls[k])'
      BY <1>3, <3>1, <3>2, <3>5, <3>6 DEF IndexOK
    <3> QED
      BY <3>3, <3>4, <3>7
  <2> QED
    BY <2>1, <2>2
<1>10. ASSUME NEW k \in Calls, calls'[k] # None PROVE SavingOK(k)'
  <2>1. CASE k = c
    <3>1. calls'[k].stage \notin Saving \cup {"mark"}
      BY <1>2, <1>10, <2>1 DEF Served, Permitted, Saving
    <3> QED
      BY <3>1, NothingSaved
  <2>2. CASE k # c
    <3>1. calls'[k] = calls[k] /\ calls[k] # None /\ saving'[k] = saving[k]
      BY <1>2, <1>3, <1>10, <2>2
    <3> QED
      BY <1>3, <3>1, Present, SavingStays
  <2> QED
    BY <2>1, <2>2
<1> QED
  BY <1>5, <1>6, <1>7, <1>8, <1>9, <1>10 DEF ControlInvariant, CallsOK, SavingsOK

LEMMA CloseKeeps ==
    ASSUME ControlInvariant, NEW c \in Calls, Close(c) PROVE ControlInvariant'
<1>1. /\ calls[c] # None /\ calls[c].stage \notin Served
      /\ calls' = [calls EXCEPT ![c] = None]
      /\ UNCHANGED <<build, rollouts, lock, provider, store, requests, starts, faults>>
  BY DEF Close, At, Served, Permitted, Saving
<1>2. requests' \in Nat /\ provider' \in [policies : Nat, identities : Nat] /\ ProviderOK'
  BY <1>1 DEF ControlInvariant, ControlTypeOK, ProviderOK, store
<1> QED
  BY <1>1, <1>2, OutsideKeeps

\* What a request has just read is not older than anything.
LEMMA ReadPoliciesKeeps ==
    ASSUME ControlInvariant, NEW c \in Calls, ReadPolicies(c) PROVE ControlInvariant'
<1> DEFINE d == [calls[c] EXCEPT !.stage = "identities", !.policies = Len(installed)]
<1>1. /\ calls[c] # None /\ calls[c].stage = "policies" /\ calls[c] \in Call
      /\ PlaceOK(calls[c]) /\ AuditOK(calls[c]) /\ IndexOK(calls[c])
      /\ UNCHANGED <<build, rollouts, lock, provider, store, requests, starts, faults>>
  BY Present DEF ReadPolicies, At
<1>2. installed \in Seq(Configurations) /\ Len(installed) \in Nat /\ Len(installed) >= 1
  <2>1. ProviderOK /\ installed \in Seq(Configurations)
    BY DEF ControlInvariant, ControlTypeOK
  <2> QED
    BY <2>1 DEF ProviderOK
<1>3. d \in Call
  BY <1>1, <1>2 DEF Call, Stages
<1>4. /\ calls' = [calls EXCEPT ![c] = d] /\ Same(c, d)
      /\ d.stage = "identities" /\ d.policies = Len(installed) /\ d.status = calls[c].status
  BY <1>1 DEF ReadPolicies, Same, Call
<1> HIDE DEF d
<1>5. PlaceOK(d) /\ AuditOK(d) /\ EffectOK(d)
  BY <1>1, <1>4 DEF Same, PlaceOK, AuditOK, EffectOK, Served, Permitted, Saving
<1>6. installed' = installed
  BY <1>1 DEF store
<1>7. PICK e \in Call : e = d
  BY <1>3
<1>8. IndexOK(e)'
  BY <1>1, <1>2, <1>4, <1>6, <1>7 DEF IndexOK, Same, Reloading, Entering, Permitted, Saving
<1>9. \A k \in Calls : calls[k] # None =>
          Len(installed) >= calls[k].floor /\ (calls[k].stage \in Reloading => calls[k].policies >= d.floor)
  BY <1>1, <1>4, Present, <1>2 DEF IndexOK, Call, ControlInvariant, FloorsOK, Same
<1>10. requests' \in Nat /\ provider' \in [policies : Nat, identities : Nat] /\ ProviderOK'
  BY <1>1, <1>6 DEF ControlInvariant, ControlTypeOK, ProviderOK
<1>11. d.stage \notin Served /\ calls[c].stage \notin Served /\ d.policies >= d.floor
  BY <1>1, <1>4, <1>9 DEF Same, Served, Permitted, Saving
<1> QED
  BY <1>1, <1>4, <1>5, <1>7, <1>8, <1>9, <1>10, <1>11, OutsideKeeps

LEMMA ReadIdentitiesKeeps ==
    ASSUME ControlInvariant, NEW c \in Calls, ReadIdentities(c) PROVE ControlInvariant'
<1> DEFINE d == [calls[c] EXCEPT !.stage = "publish", !.identities = Len(installed)]
<1>1. /\ calls[c] # None /\ calls[c].stage = "identities" /\ calls[c] \in Call
      /\ PlaceOK(calls[c]) /\ AuditOK(calls[c]) /\ IndexOK(calls[c])
      /\ UNCHANGED <<build, rollouts, lock, provider, store, requests, starts, faults>>
  BY Present DEF ReadIdentities, At
<1>2. installed \in Seq(Configurations) /\ Len(installed) \in Nat
  BY DEF ControlInvariant, ControlTypeOK
<1>3. d \in Call
  BY <1>1, <1>2 DEF Call, Stages
<1>4. /\ calls' = [calls EXCEPT ![c] = d] /\ Same(c, d)
      /\ d.stage = "publish" /\ d.policies = calls[c].policies
      /\ d.identities = Len(installed) /\ d.status = calls[c].status
  BY <1>1 DEF ReadIdentities, Same, Call
<1> HIDE DEF d
<1>5. PlaceOK(d) /\ AuditOK(d) /\ EffectOK(d)
  BY <1>1, <1>4 DEF Same, PlaceOK, AuditOK, EffectOK, Served, Permitted, Saving
<1>6. installed' = installed
  BY <1>1 DEF store
<1>7. PICK e \in Call : e = d
  BY <1>3
<1>8. calls[c].policies \in 1..Len(installed)
  BY <1>1 DEF IndexOK, Reloading
<1>9. IndexOK(e)'
  BY <1>1, <1>2, <1>4, <1>6, <1>7, <1>8 DEF IndexOK, Same, Reloading, Entering, Permitted, Saving
<1>10. \A k \in Calls : calls[k] # None =>
          /\ d.policies >= calls[k].floor
          /\ calls[k].stage \in Reloading => calls[k].policies >= d.floor
  BY <1>1, <1>4 DEF ControlInvariant, FloorsOK, Same, Reloading
<1>11. requests' \in Nat /\ provider' \in [policies : Nat, identities : Nat] /\ ProviderOK'
  BY <1>1, <1>6 DEF ControlInvariant, ControlTypeOK, ProviderOK
<1>12. d.stage \notin Served /\ calls[c].stage \notin Served /\ d.policies >= d.floor
  BY <1>1, <1>4, <1>10 DEF Same, Served, Permitted, Saving
<1> QED
  BY <1>1, <1>4, <1>5, <1>7, <1>9, <1>10, <1>11, <1>12, OutsideKeeps

\* A snapshot, torn or not, is not older than any request's floor.
LEMMA SetSnapshotKeeps ==
    ASSUME ControlInvariant, NEW c \in Calls, SetSnapshot(c) PROVE ControlInvariant'
<1>1. /\ calls[c] # None /\ calls[c].stage = "publish" /\ calls[c] \in Call
      /\ PlaceOK(calls[c]) /\ AuditOK(calls[c]) /\ IndexOK(calls[c])
      /\ UNCHANGED <<build, rollouts, lock, store, requests, starts, faults>>
      /\ provider' = [policies |-> calls[c].policies, identities |-> calls[c].identities]
  BY Present DEF SetSnapshot, At
<1>2. PICK stage \in {"permit", "gate"} :
        To(c, stage) /\ stage = (IF calls[c].action = "operate" THEN "permit" ELSE "gate")
  BY DEF SetSnapshot
<1>3. PICK d \in Call : Becomes(c, d, stage, calls[c].outcome, calls[c].audited, calls[c].status)
  BY <1>1, <1>2, Becoming DEF ControlInvariant, Stages
<1>4. /\ d.stage = stage /\ Same(c, d) /\ calls' = [calls EXCEPT ![c] = d]
      /\ d.status = calls[c].status
  BY <1>3 DEF Becomes
<1>5. d.action = "operate" \/ d.action \in Commands
  BY <1>1, <1>4 DEF Same, Call, Actions
<1>6. PlaceOK(d) /\ AuditOK(d) /\ EffectOK(d)
  BY <1>1, <1>2, <1>4, <1>5 DEF Same, PlaceOK, AuditOK, EffectOK, Served, Permitted, Saving
<1>7. installed' = installed /\ installed \in Seq(Configurations)
  BY <1>1 DEF store, ControlInvariant, ControlTypeOK
<1>8. /\ calls[c].policies \in 1..Len(installed)
      /\ calls[c].identities \in calls[c].policies..Len(installed)
  BY <1>1 DEF IndexOK, Reloading
<1>9. \A k \in Calls : calls[k] # None =>
          /\ calls[c].policies >= calls[k].floor /\ calls[c].identities >= calls[k].floor
          /\ calls[k].stage \in Reloading => calls[k].policies >= d.floor
  <2>1. \A k \in Calls : calls[k] # None =>
          /\ calls[c].policies >= calls[k].floor /\ calls[k].floor \in Nat
          /\ calls[k].stage \in Reloading => calls[k].policies >= d.floor
    BY <1>1, <1>4, Present DEF ControlInvariant, FloorsOK, Same, Reloading, Call
  <2> QED
    BY <1>8, <2>1
<1>10. IndexOK(d)'
  BY <1>1, <1>2, <1>4, <1>7, <1>8, <1>9 DEF IndexOK, Same, Reloading, Entering, Permitted, Saving
<1>11. requests' \in Nat /\ provider' \in [policies : Nat, identities : Nat] /\ ProviderOK'
  BY <1>1, <1>7, <1>8 DEF ControlInvariant, ControlTypeOK, ProviderOK
<1>12. d.stage \notin Served /\ calls[c].stage \notin Served /\ d.stage \notin Reloading
  BY <1>1, <1>2, <1>4 DEF Served, Permitted, Saving, Reloading
<1>13. \A k \in Calls : calls[k] # None =>
          provider'.policies >= calls[k].floor /\ provider'.identities >= calls[k].floor
  BY <1>1, <1>9
<1> QED
  BY <1>1, <1>4, <1>6, <1>9, <1>10, <1>11, <1>12, <1>13, OutsideKeeps

\* What a request may be decided under from its start on is not older than what
\* any reload under way may publish.
LEMMA PublishableSound ==
    ASSUME ControlInvariant, NEW oldest \in Publishable, \A n \in Publishable : oldest <= n
    PROVE  /\ oldest \in Nat /\ oldest <= Len(installed)
           /\ \A k \in Calls : calls[k] # None /\ calls[k].stage \in Reloading
                  => calls[k].policies >= oldest
<1>1. installed \in Seq(Configurations) /\ Len(installed) \in Nat
  BY DEF ControlInvariant, ControlTypeOK
<1>2. \A k \in Calls : calls[k] # None => calls[k].policies \in Nat
  BY Present DEF Call
<1>3. oldest \in Nat /\ oldest <= Len(installed)
  BY <1>1, <1>2 DEF Publishable, At
<1>4. \A k \in Calls : calls[k] # None /\ calls[k].stage \in Reloading
                  => calls[k].policies \in Publishable
  BY DEF Publishable, At, Reloading
<1> QED
  BY <1>2, <1>3, <1>4

LEMMA ArriveKeeps ==
    ASSUME ControlInvariant, NEW c \in Calls, NEW request \in Requests, Arrive(c, request)
    PROVE  ControlInvariant'
<1>1. /\ calls[c] = None /\ requests' = requests + 1
      /\ UNCHANGED <<build, rollouts, lock, provider, store, starts, faults>>
  BY DEF Arrive
<1>2. PICK oldest \in Publishable :
        /\ \A n \in Publishable : oldest <= n
        /\ calls' = [calls EXCEPT ![c] =
                  [action |-> request.action, actor |-> request.actor,
                   target |-> request.target,
                   stage |-> IF OverHTTP(request.action) THEN "policies" ELSE "gate",
                   policies |-> 0, identities |-> 0,
                   floor |-> IF OverHTTP(request.action) THEN oldest ELSE 0,
                   again |-> FALSE, outcome |-> "none", audited |-> "none",
                   status |-> "none"]]
  BY DEF Arrive
<1> DEFINE v == [action |-> request.action, actor |-> request.actor,
                 target |-> request.target,
                 stage |-> IF OverHTTP(request.action) THEN "policies" ELSE "gate",
                 policies |-> 0, identities |-> 0,
                 floor |-> IF OverHTTP(request.action) THEN oldest ELSE 0,
                 again |-> FALSE, outcome |-> "none", audited |-> "none",
                 status |-> "none"]
<1>3. /\ oldest \in Nat /\ oldest <= Len(installed)
      /\ \A k \in Calls : calls[k] # None /\ calls[k].stage \in Reloading
                  => calls[k].policies >= oldest
  BY <1>2, PublishableSound
<1>4. /\ request.action \in Actions /\ request.actor \in Actors /\ request.target \in Targets
      /\ request.target \in Resources <=> request.action = "operate"
  BY RequestsAssumption
<1>5. v \in Call
  BY <1>3, <1>4 DEF Call, Stages, Outcomes
<1>6. /\ v.action = request.action /\ v.target = request.target
      /\ v.stage \in {"policies", "gate"} /\ (v.stage = "gate" => v.action \in Rollouts)
      /\ v.floor \in {oldest, 0} /\ (v.stage = "gate" => v.floor = 0)
      /\ v.status = "none"
  BY DEF OverHTTP
<1>7. calls' = [calls EXCEPT ![c] = v]
  BY <1>2
<1> HIDE DEF v
<1>8. PICK e \in Call : e = v
  BY <1>5
<1>9. /\ installed \in Seq(Configurations) /\ Len(installed) \in Nat
      /\ provider \in [policies : Nat, identities : Nat] /\ requests \in Nat /\ ProviderOK
      /\ installed' = installed /\ provider' = provider
  BY <1>1 DEF store, ControlInvariant, ControlTypeOK
<1>10. PlaceOK(e)
  BY <1>4, <1>6, <1>8 DEF PlaceOK, Served, Permitted, Saving, Commands, Targets, Rollouts
<1>11. AuditOK(e) /\ EffectOK(e)
  BY <1>6, <1>8 DEF AuditOK, EffectOK
<1>12. IndexOK(e)'
  BY <1>3, <1>6, <1>8, <1>9 DEF IndexOK, Entering, Reloading, Permitted, Saving
<1>13. \A k \in Calls : calls[k] # None =>
          (calls[k].stage \in Reloading => calls[k].policies >= e.floor)
  BY <1>3, <1>6, <1>8, Present DEF Call
<1>14. requests' \in Nat /\ provider' \in [policies : Nat, identities : Nat] /\ ProviderOK'
  BY <1>1, <1>9 DEF ProviderOK
<1>15. e.stage \notin Served /\ e.stage \notin Reloading
  BY <1>6, <1>8 DEF Served, Permitted, Saving, Reloading
<1> QED
  BY <1>1, <1>7, <1>8, <1>9, <1>10, <1>11, <1>12, <1>13, <1>14, <1>15, OutsideKeeps

-----------------------------------------------------------------------------
(* Starts *)

\* The rows of RBAC are replaced; what was decided under earlier ones is kept.
LEMMA Replaced ==
    ASSUME ControlInvariant, NEW release \in Releases, ReplaceCurrentRBACState(release[2])
    PROVE  /\ installed' \in Seq(Configurations)
           /\ Len(installed') = Len(installed) + 1 /\ Len(installed) \in Nat
           /\ \A i \in 1..Len(installed) : installed'[i] = installed[i]
           /\ release[1] \in Builds
<1>1. release[1] \in Builds /\ release[2] \in Configurations
  BY ReleasesAssumption
<1>2. installed \in Seq(Configurations)
  BY DEF ControlInvariant, ControlTypeOK
<1> QED
  BY <1>1, <1>2 DEF ReplaceCurrentRBACState

LEMMA StartAnotherKeeps ==
    ASSUME ControlInvariant, NEW release \in Releases, StartAnother(release)
    PROVE  ControlInvariant'
<1>1. /\ starts' = starts + 1 /\ ReplaceCurrentRBACState(release[2]) /\ manifest' = release[1]
      /\ UNCHANGED <<build, heads, saving, storedHeads, lastOperation, lock, provider, calls,
                     overlay, requests, faults>>
      /\ since' = IF since = {} THEN {} ELSE since \cup {release[1]}
  BY DEF StartAnother
<1>2. /\ installed' \in Seq(Configurations)
      /\ Len(installed') = Len(installed) + 1 /\ Len(installed) \in Nat
      /\ \A i \in 1..Len(installed) : installed'[i] = installed[i]
      /\ manifest' \in Builds
  BY <1>1, Replaced
<1>3. ControlTypeOK'
  BY <1>1, <1>2 DEF ControlInvariant, ControlTypeOK
<1>4. RolloutsOK' /\ LockOK' /\ FloorsOK'
  BY <1>1 DEF ControlInvariant, RolloutsOK, LockOK, FloorsOK
<1>5. ProviderOK'
  BY <1>1, <1>2 DEF ControlInvariant, ProviderOK
<1>6. ASSUME NEW k \in Calls, calls'[k] # None
      PROVE  (PlaceOK(calls[k]) /\ AuditOK(calls[k]) /\ EffectOK(calls[k]) /\ IndexOK(calls[k]))'
  <2>1. calls'[k] = calls[k] /\ calls[k] # None
    BY <1>1, <1>6
  <2>2. /\ PlaceOK(calls[k]) /\ AuditOK(calls[k]) /\ EffectOK(calls[k]) /\ IndexOK(calls[k])
        /\ calls[k] \in Call
    BY <2>1, Present
  <2>3. (PlaceOK(calls[k]) /\ AuditOK(calls[k]))'
    BY <2>1, <2>2 DEF PlaceOK, AuditOK
  <2>4. EffectOK(calls[k])'
    BY <1>1, <2>1, <2>2, EffectStays
  <2>5. Decided(calls[k]) => Decided(calls[k])'
    <3>1. SUFFICES ASSUME Decided(calls[k]) PROVE Decided(calls[k])'
      OBVIOUS
    <3>2. /\ installed'[calls[k].policies] = installed[calls[k].policies]
          /\ installed'[calls[k].identities] = installed[calls[k].identities]
      BY <1>2, <3>1 DEF Decided
    <3>3. Granted(calls[k].policies, calls[k].identities, calls[k])'
      BY <2>1, <3>1, <3>2 DEF Decided, Granted, AuthorizeTarget
    <3> QED
      BY <1>2, <2>1, <3>1, <3>3 DEF Decided
  <2>6. IndexOK(calls[k])'
    BY <1>1, <1>2, <2>1, <2>2, <2>5 DEF IndexOK, Call
  <2> QED
    BY <2>3, <2>4, <2>6
<1>7. ASSUME NEW k \in Calls, calls'[k] # None PROVE SavingOK(k)'
  <2>1. calls'[k] = calls[k] /\ calls[k] # None /\ SavingOK(k)
    BY <1>1, <1>7, Present
  <2>2. /\ since \subseteq since'
        /\ manifest \in since => manifest' \in since'
    BY <1>1
  <2>3. ASSUME saving[k].head # None, Marks(k, saving[k].head)
        PROVE  Marks(k, saving[k].head)'
    BY <1>1, <2>1, <2>2, <2>3 DEF Marks, IsPrepared
  <2> QED
    BY <1>1, <2>1, <2>2, <2>3
       DEF SavingOK, Intended, RecordOK, HeadOK, HeadSound, IsPrepared, Rebuilt, Marks
<1> QED
  BY <1>3, <1>4, <1>5, <1>6, <1>7 DEF ControlInvariant, CallsOK, SavingsOK

\* The heads of the store, or those made again from the operation records.
LEMMA RestoredSound ==
    ASSUME RolloutTypeOK, RolloutsOK, NEW listed \in BOOLEAN
    PROVE  LET restored == restorePersistedRecords(listed) IN
           /\ restored \in [Plugins -> RolloutHead \cup {None}]
           /\ \A p \in Plugins : restored[p] # None => HeadOK(restored[p])
<1> DEFINE rebuilt == [p \in Plugins |->
             IF lastOperation[p] = None THEN None
             ELSE rolloutHeadFromOperationRecord(lastOperation[p])]
<1>1. ASSUME NEW p \in Plugins
      PROVE  /\ rebuilt[p] \in RolloutHead \cup {None}
             /\ rebuilt[p] # None => HeadOK(rebuilt[p])
  <2>1. CASE lastOperation[p] = None
    BY <2>1
  <2>2. CASE lastOperation[p] # None
    <3>1. lastOperation[p] \in Record /\ RecordOK(lastOperation[p])
      BY <2>2 DEF RolloutTypeOK, RolloutsOK
    <3> QED
      BY <2>2, <3>1, RebuiltSound
  <2> QED
    BY <2>1, <2>2
<1>2. rebuilt \in [Plugins -> RolloutHead \cup {None}]
  BY <1>1
<1>3. restorePersistedRecords(listed) \in {storedHeads, rebuilt}
  BY DEF restorePersistedRecords
<1> HIDE DEF rebuilt
<1> QED
  BY <1>1, <1>2, <1>3 DEF RolloutTypeOK, RolloutsOK

LEMMA RestartKeeps ==
    ASSUME ControlInvariant, NEW release \in Releases, Restart(release)
    PROVE  ControlInvariant'
<1>1. /\ starts' = starts + 1 /\ ReplaceCurrentRBACState(release[2])
      /\ provider' = [policies |-> Len(installed) + 1, identities |-> Len(installed) + 1]
      /\ build' = release[1] /\ manifest' = release[1]
      /\ calls' = [c \in Calls |-> None] /\ lock' = None
      /\ UNCHANGED <<overlay, storedHeads, lastOperation, requests>>
      /\ saving' = [c \in Calls |-> NothingToSave] /\ since' = {}
      /\ faults' \in {faults, faults + 1}
  BY DEF Restart, Fault
<1>2. PICK listed \in BOOLEAN : heads' = restorePersistedRecords(listed)
  BY DEF Restart
<1>3. /\ installed' \in Seq(Configurations)
      /\ Len(installed') = Len(installed) + 1 /\ Len(installed) \in Nat
      /\ release[1] \in Builds
  BY <1>1, Replaced
<1>4. RolloutTypeOK /\ RolloutsOK
  BY DEF ControlInvariant, ControlTypeOK, RolloutTypeOK
<1>5. /\ heads' \in [Plugins -> RolloutHead \cup {None}]
      /\ \A p \in Plugins : heads'[p] # None => HeadOK(heads'[p])
  BY <1>2, <1>4, RestoredSound
<1>6. ControlTypeOK'
  <2>1. NothingToSave \in [record : Record, head : RolloutHead \cup {None}]
    BY RecordSound DEF NothingToSave
  <2> QED
    BY <1>1, <1>3, <1>5, <2>1 DEF ControlInvariant, ControlTypeOK
<1>7. RolloutsOK'
  BY <1>1, <1>4, <1>5 DEF RolloutsOK
<1>8. \A c \in Calls : calls'[c] = None
  BY <1>1
<1>9. LockOK' /\ FloorsOK' /\ CallsOK' /\ SavingsOK'
  BY <1>1, <1>8 DEF LockOK, FloorsOK, CallsOK, SavingsOK
<1>10. ProviderOK'
  BY <1>1, <1>3 DEF ProviderOK
<1> QED
  BY <1>6, <1>7, <1>9, <1>10 DEF ControlInvariant

-----------------------------------------------------------------------------
(* Every behaviour *)

LEMMA InitHolds == Init => ControlInvariant
<1> SUFFICES ASSUME Init PROVE ControlInvariant
  OBVIOUS
<1>1. PICK release \in Releases : build = release[1] /\ installed = <<release[2]>>
  BY DEF Init
<1>2. release[1] \in Builds /\ release[2] \in Configurations
  BY ReleasesAssumption
<1>3. installed \in Seq(Configurations) /\ Len(installed) = 1
  BY <1>1, <1>2
<1>4. ControlTypeOK
  <2>1. NothingToSave \in [record : Record, head : RolloutHead \cup {None}]
    BY RecordSound DEF NothingToSave
  <2> QED
    BY <1>1, <1>2, <1>3, <2>1 DEF Init, ControlTypeOK
<1>5. RolloutsOK /\ SavingsOK /\ LockOK /\ FloorsOK /\ CallsOK
  BY DEF Init, RolloutsOK, SavingsOK, LockOK, FloorsOK, CallsOK
<1>6. ProviderOK
  BY <1>3 DEF Init, ProviderOK
<1> QED
  BY <1>4, <1>5, <1>6 DEF ControlInvariant

LEMMA StutteringKeeps == ControlInvariant /\ UNCHANGED vars => ControlInvariant'
<1> SUFFICES ASSUME ControlInvariant, UNCHANGED vars PROVE ControlInvariant'
  OBVIOUS
<1>1. UNCHANGED <<build, heads, saving, lock, provider, calls, overlay, manifest, storedHeads,
                  lastOperation, installed, since, requests, starts, faults>>
  BY DEF vars
<1>2. ControlTypeOK' /\ RolloutsOK' /\ LockOK' /\ FloorsOK' /\ ProviderOK'
  BY <1>1 DEF ControlInvariant, ControlTypeOK, RolloutsOK, LockOK, FloorsOK, ProviderOK
<1>3. ASSUME NEW k \in Calls, calls'[k] # None
      PROVE  (PlaceOK(calls[k]) /\ AuditOK(calls[k]) /\ EffectOK(calls[k]) /\ IndexOK(calls[k]))'
  <2>1. calls'[k] = calls[k] /\ calls[k] # None
    BY <1>1, <1>3
  <2>2. PlaceOK(calls[k]) /\ AuditOK(calls[k]) /\ EffectOK(calls[k]) /\ IndexOK(calls[k])
    BY <2>1, Present
  <2>3. (PlaceOK(calls[k]) /\ AuditOK(calls[k]))'
    BY <2>1, <2>2 DEF PlaceOK, AuditOK
  <2>4. EffectOK(calls[k])'
    BY <1>1, <2>1, <2>2, EffectStays
  <2>5. Decided(calls[k]) => Decided(calls[k])'
    BY <1>1, <2>1, DecisionStays
  <2>6. IndexOK(calls[k])'
    BY <1>1, <2>1, <2>2, <2>5 DEF IndexOK
  <2> QED
    BY <2>3, <2>4, <2>6
<1>4. ASSUME NEW k \in Calls, calls'[k] # None PROVE SavingOK(k)'
  BY <1>1, <1>4, Present, SavingStays
<1> QED
  BY <1>2, <1>3, <1>4 DEF ControlInvariant, CallsOK, SavingsOK

LEMMA NextKeeps == ControlInvariant /\ [Next]_vars => ControlInvariant'
<1> SUFFICES ASSUME ControlInvariant, [Next]_vars PROVE ControlInvariant'
  OBVIOUS
<1>1. CASE UNCHANGED vars
  BY <1>1, StutteringKeeps
<1>2. ASSUME NEW c \in Calls, NEW request \in Requests, Arrive(c, request) PROVE ControlInvariant'
  BY <1>2, ArriveKeeps
<1>3. ASSUME NEW c \in Calls, Serve(c) PROVE ControlInvariant'
  BY <1>3, ReadPoliciesKeeps, ReadIdentitiesKeeps, SetSnapshotKeeps, StoreFailsKeeps,
     DispatchCommandKeeps, dispatchToPluginsKeeps, AcquireHostKeeps, RespondKeeps,
     PermitOperatorKeeps, ChangeResourceKeeps, recordOperatorSuccessAuditKeeps, CloseKeeps
     DEF Serve
<1>4. ASSUME NEW c \in Calls, InPlugin(c) PROVE ControlInvariant'
  BY <1>4, PluginAuthorizesKeeps, SetEnabledKeeps, PrepareKeeps, CanaryKeeps, CanActivateKeeps,
     EnableFirstKeeps, ActivateKeeps, CanRollbackKeeps, RollbackKeeps, recordAndJoinKeeps,
     ReplyKeeps, PluginDiesKeeps, persistOperationResultKeeps, persistHeadKeeps
     DEF InPlugin
<1>5. ASSUME NEW release \in Releases, StartAnother(release) \/ Restart(release)
      PROVE  ControlInvariant'
  BY <1>5, StartAnotherKeeps, RestartKeeps
<1> QED
  BY <1>1, <1>2, <1>3, <1>4, <1>5 DEF Next

\* The invariant that the theorems below follow from: beside their own statements
\* it says where a request can be, that the request in the plugin is the one that
\* holds its host, that what a request has yet to save of a rollout is what it
\* decided and still fits the head and the plugin it decided about, and that no
\* reload under way may publish what is older than the floor of a request there.
THEOREM ControlInvariantHolds == Control => []ControlInvariant
<1>1. Init => ControlInvariant
  BY InitHolds
<1>2. ControlInvariant /\ [Next]_vars => ControlInvariant'
  BY NextKeeps
<1> QED
  BY <1>1, <1>2, PTL DEF Control

\* The state of the control plane is well typed at every moment.
THEOREM ControlTypeCorrect == Control => []ControlTypeOK
<1>1. ControlInvariant => ControlTypeOK
  BY DEF ControlInvariant
<1> QED
  BY <1>1, ControlInvariantHolds, PTL

\* What is active is the stable snapshot, or in a canary a compatible candidate:
\* whatever operators do, whichever writes of heads and records are refused, and
\* whatever build starts with which manifests (rollout.go:147-233, 501-528).
THEOREM RolloutsStaySound == Control => []RolloutsAreSound
<1>1. ControlInvariant => RolloutsAreSound
  BY DEF ControlInvariant, RolloutsOK, HeadOK, RolloutsAreSound
<1> QED
  BY <1>1, ControlInvariantHolds, PTL

\* The audit of a command tells what is there when it is written, and a command
\* answered as successful was done and audited unless its plugin died under it.
THEOREM AuditsStayTrue == Control => []AuditsAreTrue
<1>1. ControlInvariant => AuditsAreTrue
  <2> SUFFICES ASSUME ControlInvariant, NEW c \in Calls, calls[c] # None
               PROVE  /\ (calls[c].stage \in {"audit", "reply"} /\ calls[c].outcome = "done")
                              => Effect(calls[c])
                      /\ (calls[c].status = "ok" /\ ~calls[c].again)
                              => /\ calls[c].outcome = "done"
                                 /\ calls[c].action \in Commands => calls[c].audited = "done"
    BY DEF AuditsAreTrue
  <2> QED
    BY Present DEF EffectOK, AuditOK
<1> QED
  BY <1>1, ControlInvariantHolds, PTL

\* A permission that was taken away before the reloads under way began is gone:
\* however the reloads of concurrent requests overtake and tear each other.
THEOREM RevocationsStayHeld == Control => []RevocationsHold
<1>1. ControlInvariant => RevocationsHold
  <2> SUFFICES ASSUME ControlInvariant, NEW c \in Calls, calls[c] # None,
                      calls[c].stage \in Permitted \cup {"change"}
               PROVE  /\ Granted(calls[c].policies, calls[c].identities, calls[c])
                      /\ calls[c].policies >= calls[c].floor
                      /\ calls[c].identities >= calls[c].floor
    BY DEF RevocationsHold
  <2> QED
    BY Present DEF IndexOK, Decided
<1> QED
  BY <1>1, ControlInvariantHolds, PTL

\* What a step that marks a head as activated starts from.
AsPrepared(p) ==
    /\ heads[p] # None /\ IsPrepared(heads[p])
    /\ heads'[p].stable = heads[p].candidate
    /\ \E b \in since :
          heads[p].stable.version = rolloutSnapshotStateFromManifest(b).version
    /\ overlay[p]

\* A refusal puts no activated head in memory.
LEMMA RefusalMarksNothing ==
    ASSUME ControlInvariant, NEW c \in Calls, RefuseRollout(c) \/ RefuseRollback(c),
           NEW p \in Plugins, heads'[p] # heads[p]
    PROVE  heads'[p].status # "activated"
<1>1. RolloutTypeOK
  BY DEF ControlInvariant, ControlTypeOK, RolloutTypeOK
<1>2. heads' = heads \/ heads' = [heads EXCEPT ![calls[c].target] = Fresh]
  BY DEF RefuseRollout, RefuseRollback, rollouts
<1>3. heads'[p] = Fresh
  BY <1>1, <1>2 DEF RolloutTypeOK
<1>4. Fresh.status # "activated"
  BY <1>1, FreshSound
<1> QED
  BY <1>3, <1>4

\* Only a head that waited to be saved marks a plugin as activated.
LEMMA ActivationIsPrepared ==
    ASSUME ControlInvariant, NEW c \in Calls,
           Serve(c) \/ InPlugin(c) \/ \E request \in Requests : Arrive(c, request),
           NEW p \in Plugins, heads'[p] # heads[p], heads'[p].status = "activated"
    PROVE  AsPrepared(p)
<1>1. CASE persistHead(c)
  <2> DEFINE q == calls[c].target
  <2>1. /\ calls[c] # None /\ calls[c].stage = "head" /\ calls[c].stage \in Permitted
        /\ heads' = [heads EXCEPT ![q] = saving[c].head]
    BY <1>1 DEF persistHead, At, Permitted, Saving
  <2>2. RolloutTypeOK /\ q \in Plugins
    BY <2>1, HolderActs
  <2>3. p = q /\ heads'[q] = saving[c].head
    BY <2>1, <2>2 DEF RolloutTypeOK
  <2>4. saving[c].head # None /\ Marks(c, saving[c].head)
    BY <2>1, <2>3, Present DEF SavingOK, Saving
  <2> QED
    BY <2>3, <2>4 DEF AsPrepared, Marks
<1>2. CASE \/ Prepare(c) \/ Canary(c) \/ CanActivate(c) \/ Activate(c)
           \/ CanRollback(c) \/ Rollback(c)
  BY <1>2, RefusalMarksNothing
     DEF Prepare, Canary, CanActivate, Activate, CanRollback, Rollback, rollouts
<1>3. CASE \E request \in Requests : Arrive(c, request)
  BY <1>3 DEF Arrive, rollouts
<1>4. CASE Serve(c)
  BY <1>4 DEF Serve, ReadPolicies, ReadIdentities, SetSnapshot, StoreFails, DispatchCommand,
     dispatchToPlugins, AcquireHost, Respond, PermitOperator, ChangeResource,
     recordOperatorSuccessAudit, Close, rollouts
<1>5. CASE \/ PluginAuthorizes(c) \/ SetEnabled(c) \/ EnableFirst(c)
           \/ persistOperationResult(c) \/ recordAndJoin(c) \/ Reply(c) \/ PluginDies(c)
  BY <1>5 DEF PluginAuthorizes, SetEnabled, EnableFirst, persistOperationResult, recordAndJoin,
     Reply, PluginDies, rollouts
<1> QED
  BY <1>1, <1>2, <1>3, <1>4, <1>5 DEF InPlugin

\* A plugin is marked activated only while it is enabled, with the candidate its
\* head named, prepared against a manifest that was in the store at some moment
\* since the plugin was enabled for it: for every number of goroutines, plugins,
\* builds and other runtimes, wherever these start between the check, the two
\* writes and the mark.
THEOREM ActivationsAsPrepared == Control => ActivatedAsPrepared
<1>1. ASSUME ControlInvariant, [Next]_vars, ~UNCHANGED vars, starts' = starts, NEW p \in Plugins,
             heads'[p] # heads[p], heads'[p].status = "activated"
      PROVE  AsPrepared(p)
  <2>1. starts \in Nat
    BY <1>1 DEF ControlInvariant, ControlTypeOK
  <2>2. \A release \in Releases : StartAnother(release) \/ Restart(release) => starts' = starts + 1
    BY DEF StartAnother, Restart
  <2>3. starts' # starts + 1
    BY <1>1, <2>1
  <2>4. Next
    BY <1>1
  <2> QED
    BY <1>1, <2>2, <2>3, <2>4, ActivationIsPrepared DEF Next
<1>2. ControlInvariant /\ [Next]_vars =>
        [starts' = starts =>
          \A p \in Plugins :
              (heads'[p] # heads[p] /\ heads'[p].status = "activated")
                  => /\ heads[p] # None /\ IsPrepared(heads[p])
                     /\ heads'[p].stable = heads[p].candidate
                     /\ \E b \in since :
                            heads[p].stable.version = rolloutSnapshotStateFromManifest(b).version
                     /\ overlay[p]]_vars
  BY <1>1 DEF AsPrepared
<1> QED
  BY <1>2, ControlInvariantHolds, PTL DEF Control, ActivatedAsPrepared
=============================================================================
