-------------------------- MODULE CheckpointChain --------------------------
(***************************************************************************)
(* Signed checkpoints and the external anchor                              *)
(* (liminal-store/src/checkpoint.rs): a ledger that advances, checkpoints  *)
(* signed over its snapshots, local files (ledger and checkpoints) put     *)
(* back from an older copy, and an outside registry that anchors a chain   *)
(* only after verify_checkpoint_chain accepts it.                          *)
(*                                                                         *)
(* The event-chain head, the projection digest and the snapshot digest of  *)
(* a ledger stand for its whole history.  A manifest reference is its      *)
(* body, wrapped.  Signatures are not forged; one signer rotates its keys. *)
(***************************************************************************)
EXTENDS Integers, Sequences

CONSTANTS
    Payloads,        \* what an event may say
    Roots,           \* storage_root_identity values callers supply
    Keys,            \* key_id values of the signer
    Revocable,       \* the keys that may be revoked
    ValidUntil,      \* valid_until_ms values (NoValue: no end)
    Lifetimes,       \* how long callers let a checkpoint live (NoValue: no expiry)
    NoValue,         \* Option::None
    SegmentEvents,   \* events per WAL segment
    MaxHistory,      \* bound: events in a history
    MaxTime,         \* bound: the clock
    MaxRestores      \* bound: restored copies

ASSUME CheckpointAssumption ==
    /\ SegmentEvents \in Nat \ {0} /\ MaxHistory \in Nat /\ MaxTime \in Nat
    /\ MaxRestores \in Nat
    /\ Revocable \subseteq Keys

VARIABLES
    history,     \* the events of the local ledger
    info,        \* the last TransitionLedgerSnapshotInfo, held by the caller
    manifests,   \* the local checkpoints, oldest first
    copy,        \* a consistent copy of both, made earlier
    anchor,      \* the latest external anchor, or NoValue
    registry,    \* TrustedKeyRegistry: key_id -> validity
    now,         \* the trusted clock
    restores     \* copies restored so far

checkpointVars == <<history, info, manifests, copy, anchor, registry, now, restores>>

Last(s) == s[Len(s)]

\* The history s goes on as t.
IsPrefix(s, t) == Len(s) <= Len(t) /\ \A i \in DOMAIN s : s[i] = t[i]

ManifestDigest(body) == [sha256 |-> body]

\* end_offset of a log of n events.
WalPosition(n) ==
    IF n = 0 THEN <<1, 0>>
    ELSE <<((n - 1) \div SegmentEvents) + 1, ((n - 1) % SegmentEvents) + 1>>

-----------------------------------------------------------------------------
(* Verification *)

KeyActive(key, t) ==
    /\ registry[key].valid_from_ms <= t
    /\ registry[key].valid_until_ms # NoValue => t <= registry[key].valid_until_ms
    /\ registry[key].revoked_at_ms # NoValue => t < registry[key].revoked_at_ms

\* verify_signed_checkpoint
SignedOk(m, t) ==
    /\ m.body.last_sequence # 0
    /\ m.body.expires_at_ms # NoValue =>
         /\ m.body.issued_at_ms < m.body.expires_at_ms
         /\ t <= m.body.expires_at_ms
    /\ m.manifest_ref = ManifestDigest(m.body)
    /\ m.body.issued_at_ms <= t
    /\ KeyActive(m.body.key_id, t)

\* The tuple comparison of (wal_segment, wal_offset).
PositionBefore(p, q) == p[1] < q[1] \/ (p[1] = q[1] /\ p[2] < q[2])

\* The pairwise checks of verify_checkpoint_chain.
Follows(previous, current) ==
    /\ current.body.storage_root_identity = previous.body.storage_root_identity
    /\ current.body.previous_checkpoint_ref = previous.manifest_ref
    /\ previous.body.last_sequence < current.body.last_sequence
    /\ PositionBefore(previous.body.wal_position, current.body.wal_position)
    /\ previous.body.issued_at_ms <= current.body.issued_at_ms
    /\ current.body.event_chain_head # previous.body.event_chain_head

MatchesAnchor(m, a) ==
    /\ m.body.storage_root_identity = a.storage_root_identity
    /\ m.body.event_chain_head = a.event_chain_head
    /\ m.body.last_sequence = a.last_sequence

\* Mutant: the anchored checkpoint is looked up by its sequence alone.
AnchorVerdictBySequence(ms, a) ==
    IF Last(ms).body.last_sequence < a.last_sequence
    THEN "ExternalAnchorRollback"
    ELSE IF \E i \in DOMAIN ms : ms[i].body.last_sequence = a.last_sequence
    THEN "ExternalAnchorVerified" ELSE "ExternalAnchorNotInChain"

\* Mutant: only a rollback of the sequence is refused.
AnchorVerdictRollbackOnly(ms, a) ==
    IF Last(ms).body.last_sequence < a.last_sequence
    THEN "ExternalAnchorRollback" ELSE "ExternalAnchorVerified"

\* The anchor checks of verify_checkpoint_chain, for a chain that is in order.
AnchorVerdict(ms, a) ==
    LET anchored == {i \in DOMAIN ms : ms[i].manifest_ref = a.checkpoint_ref}
    IN  IF Last(ms).body.last_sequence < a.last_sequence
        THEN "ExternalAnchorRollback"
        ELSE IF anchored = {}
        THEN IF \E i \in DOMAIN ms :
                  /\ ms[i].body.last_sequence = a.last_sequence
                  /\ ~ MatchesAnchor(ms[i], a)
             THEN "ExternalAnchorFork" ELSE "ExternalAnchorNotInChain"
        ELSE IF \A i \in anchored : MatchesAnchor(ms[i], a)
        THEN "ExternalAnchorVerified" ELSE "ExternalAnchorFork"

\* verify_checkpoint_chain
Verdict(ms, a, t) ==
    IF ms = <<>> THEN "EmptyChain"
    ELSE IF \E i \in DOMAIN ms : ~ SignedOk(ms[i], t) THEN "NotVerified"
    ELSE IF \E i \in 2..Len(ms) : ~ Follows(ms[i - 1], ms[i])
    THEN "BrokenChain"
    ELSE IF a = NoValue THEN "LocalSignatureOnly"
    ELSE AnchorVerdict(ms, a)

Accepted == {"LocalSignatureOnly", "ExternalAnchorVerified"}

-----------------------------------------------------------------------------
(* Operations *)

CheckpointInit ==
    /\ history = <<>> /\ info = NoValue /\ manifests = <<>>
    /\ copy = [history |-> <<>>, manifests |-> <<>>]
    /\ anchor = NoValue /\ now = 0 /\ restores = 0
    /\ registry \in
         [Keys -> [valid_from_ms : {0}, valid_until_ms : ValidUntil,
                   revoked_at_ms : {NoValue}]]

\* The local ledger advances.
ExtendHistory(payload) ==
    /\ Len(history) < MaxHistory
    /\ history' = Append(history, payload)
    /\ UNCHANGED <<info, manifests, copy, anchor, registry, now, restores>>

\* write_snapshot returns the info that checkpoint_material asks for.
WriteSnapshot ==
    /\ info' = [state |-> history, offset |-> WalPosition(Len(history))]
    /\ UNCHANGED <<history, manifests, copy, anchor, registry, now, restores>>

\* Mutant: the snapshot is compared by its event count only.
MaterialMatchesByCount ==
    /\ info # NoValue
    /\ history # <<>>
    /\ Len(info.state) = Len(history)

\* checkpoint_material: the snapshot is of the ledger's current state.
MaterialMatches ==
    /\ info # NoValue
    /\ history # <<>>
    /\ info.state = history

\* Mutant: the checkpoint does not name the previous one.
BodyUnlinked(root, key, expires) ==
    [storage_root_identity |-> root, event_chain_head |-> history,
     last_sequence |-> Len(history), wal_position |-> info.offset,
     snapshot_digest |-> info.state, key_id |-> key, issued_at_ms |-> now,
     expires_at_ms |-> expires, previous_checkpoint_ref |-> NoValue]

Body(root, key, expires) ==
    [storage_root_identity |-> root,
     event_chain_head |-> history,
     last_sequence |-> Len(history),
     wal_position |-> info.offset,
     snapshot_digest |-> info.state,
     key_id |-> key,
     issued_at_ms |-> now,
     expires_at_ms |-> expires,
     previous_checkpoint_ref |->
       IF manifests = <<>> THEN NoValue ELSE Last(manifests).manifest_ref]

\* CheckpointSigner::sign over that material.  Callers follow the profile: a
\* new checkpoint has a greater sequence than the previous one, and its root.
Checkpoint(root, key, expires) ==
    /\ MaterialMatches
    /\ expires # NoValue => now < expires
    /\ manifests # <<>> =>
         /\ Last(manifests).body.last_sequence < Len(history)
         /\ Last(manifests).body.storage_root_identity = root
    /\ manifests' = Append(manifests,
                           [body |-> Body(root, key, expires),
                            manifest_ref |-> ManifestDigest(Body(root, key, expires))])
    /\ UNCHANGED <<history, info, copy, anchor, registry, now, restores>>

\* The local files are copied, or put back from the copy.
SaveCopy ==
    /\ restores < MaxRestores
    /\ copy' = [history |-> history, manifests |-> manifests]
    /\ UNCHANGED <<history, info, manifests, anchor, registry, now, restores>>

RestoreCopy ==
    /\ restores < MaxRestores
    /\ restores' = restores + 1
    /\ history' = copy.history /\ manifests' = copy.manifests
    /\ UNCHANGED <<info, copy, anchor, registry, now>>

\* The outside registry anchors the latest checkpoint of a chain it verified
\* against its own latest anchor.
AnchorLatest ==
    /\ Verdict(manifests, anchor, now) \in Accepted
    /\ anchor' = [checkpoint_ref |-> Last(manifests).manifest_ref,
                  storage_root_identity |-> Last(manifests).body.storage_root_identity,
                  event_chain_head |-> Last(manifests).body.event_chain_head,
                  last_sequence |-> Last(manifests).body.last_sequence]
    /\ UNCHANGED <<history, info, manifests, copy, registry, now, restores>>

\* TrustedKeyRegistry::insert of the same key, now revoked.
RevokeKey(key) ==
    /\ registry[key].revoked_at_ms = NoValue
    /\ registry' = [registry EXCEPT ![key].revoked_at_ms = now]
    /\ UNCHANGED <<history, info, manifests, copy, anchor, now, restores>>

Tick ==
    /\ now < MaxTime
    /\ now' = now + 1
    /\ UNCHANGED <<history, info, manifests, copy, anchor, registry, restores>>

CheckpointNext ==
    \/ \E payload \in Payloads : ExtendHistory(payload)
    \/ WriteSnapshot
    \/ \E root \in Roots, key \in Keys, life \in Lifetimes :
         Checkpoint(root, key, IF life = NoValue THEN NoValue ELSE now + life)
    \/ SaveCopy
    \/ RestoreCopy
    \/ AnchorLatest
    \/ \E key \in Revocable : RevokeKey(key)
    \/ Tick

CheckpointSpec == CheckpointInit /\ [][CheckpointNext]_checkpointVars

-----------------------------------------------------------------------------
(* Properties *)

\* The attestation is about one state: the snapshot and the WAL position a
\* manifest is bound to are those of its event-chain head, although the caller
\* holds the snapshot info while the ledger advances or is put back.
ManifestsConsistent ==
    \A i \in DOMAIN manifests :
      LET b == manifests[i].body
      IN  /\ b.snapshot_digest = b.event_chain_head
          /\ b.last_sequence = Len(b.event_chain_head)
          /\ b.wal_position = WalPosition(b.last_sequence)

\* Anti-rollback: local files that verify against the external anchor hold
\* every event that was anchored, at the same place.  A restored copy that lost
\* some, or went on differently, does not verify.
VerifiedHoldsAnchored ==
    Verdict(manifests, anchor, now) = "ExternalAnchorVerified" =>
      IsPrefix(anchor.event_chain_head, history)

\* Whatever is restored and re-signed locally, successive anchors are one line
\* of ledger history of one storage root: never older, never another branch.
AnchorsAreOneLine ==
    [][anchor # NoValue =>
         /\ IsPrefix(anchor.event_chain_head, anchor'.event_chain_head)
         /\ anchor'.storage_root_identity = anchor.storage_root_identity]_anchor

\* What the signer produces the verifier accepts: without a restored copy, and
\* while keys and checkpoints are valid, the local chain verifies, against the
\* anchor too.
HonestChainVerifies ==
    /\ restores = 0 /\ manifests # <<>>
    /\ \A i \in DOMAIN manifests :
         /\ KeyActive(manifests[i].body.key_id, now)
         /\ manifests[i].body.expires_at_ms # NoValue =>
              now <= manifests[i].body.expires_at_ms
    => Verdict(manifests, anchor, now) \in Accepted

\* What the checkpoint profile says of another checkpoint with the sequence and
\* the storage identity of the anchored one: it fails as a fork.
DifferentCheckpointIsFork ==
    anchor # NoValue =>
      \A i \in DOMAIN manifests :
        /\ manifests[i].manifest_ref # anchor.checkpoint_ref
        /\ manifests[i].body.last_sequence = anchor.last_sequence
        /\ manifests[i].body.storage_root_identity = anchor.storage_root_identity
        /\ Verdict(manifests, NoValue, now) = "LocalSignatureOnly"
        => Verdict(manifests, anchor, now) = "ExternalAnchorFork"
=============================================================================
