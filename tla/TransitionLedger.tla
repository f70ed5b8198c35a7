-------------------------- MODULE TransitionLedger --------------------------
(***************************************************************************)
(* The semantic state machine of TrustworthyTransitionLedger               *)
(* (liminal-store/src/trustworthy_transition.rs): the admission rules of   *)
(* apply_event and the projection it maintains, for one open, healthy      *)
(* ledger.  What storage failures, crashes and snapshots do to it is in    *)
(* LedgerRecovery.                                                         *)
(*                                                                         *)
(* Record references and identifiers are abstract values.  Of the five     *)
(* dimensions of a record only `execution' is ever compared, so it stands  *)
(* for all of them.  A digest is the value it digests, wrapped: SHA-256 is *)
(* taken to be injective.                                                  *)
(***************************************************************************)
EXTENDS Integers, Sequences, FiniteSets

CONSTANTS
    Transitions,   \* transition identifiers
    Subjects,      \* subject identifiers
    Refs,          \* well-formed record references ("sha256:..." strings)
    None,          \* Rust's Option::None
    Inputs(_),     \* the inputs a client may offer, given the ledger state
    MaxEvents      \* bound: appends explored from an empty ledger

ASSUME LedgerAssumption ==
    /\ None \notin Refs
    /\ MaxEvents \in Nat

VARIABLES
    state,         \* LedgerState
    log            \* the events in the write-ahead log, oldest first

vars == <<state, log>>

-----------------------------------------------------------------------------
(* Data *)

Opt(S) == S \cup {None}

TransitionRecordKind ==
    {"Authorization", "Observation", "ResponseIntegrity", "CausalAudit",
     "ContinuitySnapshot"}

ExecutionState ==
    {"NotObserved", "ObservedExecuted", "ObservedBlocked", "ObservedErrored",
     "ObservedOther"}

TransitionLinks ==
    [authorization_ref       : Opt(Refs),
     observation_refs        : SUBSET Refs,
     response_integrity_ref  : Opt(Refs),
     causal_audit_ref        : Opt(Refs),
     previous_continuity_ref : Opt(Refs)]

TransitionEventInput ==
    [transition_id         : Transitions,
     subject_id            : Subjects,
     kind                  : TransitionRecordKind,
     record_ref            : Refs,
     links                 : TransitionLinks,
     dimensions            : Opt(ExecutionState),
     side_effect_committed : Opt(BOOLEAN)]

RecordOwner ==
    [transition_id : Transitions, subject_id : Subjects,
     kind : TransitionRecordKind]

\* LedgerState::default()
DefaultState ==
    [next_sequence   |-> 1,
     head_event_hash |-> None,
     projections     |-> <<>>,
     record_owners   |-> <<>>]

\* BTreeMap::insert; a map is a function on the keys it holds.
Insert(map, key, value) ==
    [k \in DOMAIN map \cup {key} |-> IF k = key THEN value ELSE map[k]]

Digest(body) == [sha256 |-> body]

-----------------------------------------------------------------------------
(* Admission: what apply_event accepts *)

\* normalize_input and validate_event_body: well-formed references, and
\* dimensions on every continuity snapshot.
WellFormed(input) ==
    /\ input \in TransitionEventInput
    /\ input.kind = "ContinuitySnapshot" => input.dimensions # None

EnsureOwnedBy(st, ref, b) ==
    /\ ref \in DOMAIN st.record_owners
    /\ st.record_owners[ref].transition_id = b.transition_id
    /\ st.record_owners[ref].subject_id = b.subject_id

ExpectOptionalRef(st, actual, expected, b) ==
    /\ actual = expected
    /\ actual # None => EnsureOwnedBy(st, actual, b)

ExpectObservationSet(st, current, b) ==
    /\ b.links.observation_refs = current.observation_refs
    /\ \A ref \in b.links.observation_refs : EnsureOwnedBy(st, ref, b)

\* Mutant: only a fall back to NotObserved counts as a roll-back.
ValidateMonotonicDimensionsLax(previous, update) ==
    ~ (previous = "ObservedExecuted" /\ update = "NotObserved")

\* Execution never leaves ObservedExecuted once a record reported it.
ValidateMonotonicDimensions(previous, update) ==
    ~ (previous = "ObservedExecuted" /\ update \notin {None, "ObservedExecuted"})

ValidateSideEffect(previous, update) == ~ (previous = TRUE /\ update = FALSE)

OutcomeAccepted(current, b) ==
    /\ ValidateMonotonicDimensions(current.dimensions, b.dimensions)
    /\ ValidateSideEffect(current.side_effect_committed, b.side_effect_committed)

AuthorizationAccepted(st, b) ==
    LET current == st.projections[b.transition_id]
    IN  /\ b.links.observation_refs = {}
        /\ b.links.response_integrity_ref = None
        /\ b.links.causal_audit_ref = None
        /\ b.links.previous_continuity_ref = None
        /\ \/ /\ b.transition_id \notin DOMAIN st.projections
              /\ b.links.authorization_ref = None
           \/ /\ b.transition_id \in DOMAIN st.projections
              /\ current.subject_id = b.subject_id
              /\ current.authorization_ref # None
              /\ b.links.authorization_ref = current.authorization_ref
              /\ EnsureOwnedBy(st, current.authorization_ref, b)
              /\ OutcomeAccepted(current, b)

\* The evidence a dependent record of each kind has to cite.
EvidenceAccepted(st, current, b) ==
    \/ /\ b.kind = "Observation"
       /\ b.links.observation_refs = {}
       /\ b.links.response_integrity_ref = None
       /\ b.links.causal_audit_ref = None
       /\ b.links.previous_continuity_ref = None
    \/ /\ b.kind = "ResponseIntegrity"
       /\ ExpectObservationSet(st, current, b)
       /\ b.links.response_integrity_ref = None
       /\ b.links.causal_audit_ref = None
       /\ b.links.previous_continuity_ref = None
    \/ /\ b.kind = "CausalAudit"
       /\ ExpectObservationSet(st, current, b)
       /\ ExpectOptionalRef(st, b.links.response_integrity_ref,
                            current.response_integrity_ref, b)
       /\ b.links.causal_audit_ref = None
       /\ b.links.previous_continuity_ref = None
    \/ /\ b.kind = "ContinuitySnapshot"
       /\ ExpectObservationSet(st, current, b)
       /\ ExpectOptionalRef(st, b.links.response_integrity_ref,
                            current.response_integrity_ref, b)
       /\ ExpectOptionalRef(st, b.links.causal_audit_ref,
                            current.causal_audit_ref, b)
       /\ ExpectOptionalRef(st, b.links.previous_continuity_ref,
                            current.continuity_snapshot_ref, b)

\* Mutant: the cited authorization is not compared with the current one.
DependentAcceptedAnyAuthorization(st, b) ==
    LET current == st.projections[b.transition_id]
    IN  /\ b.transition_id \in DOMAIN st.projections
        /\ current.subject_id = b.subject_id
        /\ EvidenceAccepted(st, current, b)
        /\ OutcomeAccepted(current, b)

DependentAccepted(st, b) ==
    LET current == st.projections[b.transition_id]
    IN  /\ b.transition_id \in DOMAIN st.projections
        /\ current.subject_id = b.subject_id
        /\ current.authorization_ref # None
        /\ ExpectOptionalRef(st, b.links.authorization_ref,
                             current.authorization_ref, b)
        /\ EvidenceAccepted(st, current, b)
        /\ OutcomeAccepted(current, b)

\* Every check of apply_event, in its order.
Accepts(st, event) ==
    /\ event.body.sequence = st.next_sequence
    /\ event.body.previous_event_hash = st.head_event_hash
    /\ Digest(event.body) = event.event_hash
    /\ event.body.record_ref \notin DOMAIN st.record_owners
    /\ IF event.body.kind = "Authorization"
       THEN AuthorizationAccepted(st, event.body)
       ELSE DependentAccepted(st, event.body)

-----------------------------------------------------------------------------
(* Effect: what apply_event does to the projection *)

\* The first authorization of a transition creates its projection.
NewProjection(event) ==
    LET b == event.body
    IN  [subject_id             |-> b.subject_id,
         authorization_ref      |-> b.record_ref,
         authorization_epoch    |-> 1,
         observation_refs       |-> {},
         response_integrity_ref |-> None,
         causal_audit_ref       |-> None,
         continuity_snapshot_ref |-> None,
         dimensions             |-> b.dimensions,
         side_effect_committed  |-> b.side_effect_committed = TRUE,
         last_sequence          |-> b.sequence,
         last_event_hash        |-> event.event_hash,
         event_count            |-> 1]

\* Mutant: a late observation leaves the integrity record and what follows it.
ProjectEvidenceKeepsIntegrity(p, b) ==
    CASE b.kind = "Authorization" ->
           [p EXCEPT !.authorization_ref = b.record_ref,
                     !.authorization_epoch = @ + 1,
                     !.observation_refs = {},
                     !.response_integrity_ref = None,
                     !.causal_audit_ref = None,
                     !.continuity_snapshot_ref = None]
      [] b.kind = "Observation" ->
           [p EXCEPT !.observation_refs = @ \cup {b.record_ref}]
      [] b.kind = "ResponseIntegrity" ->
           [p EXCEPT !.response_integrity_ref = b.record_ref]
      [] b.kind = "CausalAudit" ->
           [p EXCEPT !.causal_audit_ref = b.record_ref]
      [] b.kind = "ContinuitySnapshot" ->
           [p EXCEPT !.continuity_snapshot_ref = b.record_ref]

\* A later record replaces the reference of its own kind and drops every
\* reference that depended on what it replaced.
ProjectEvidence(p, b) ==
    CASE b.kind = "Authorization" ->
           [p EXCEPT !.authorization_ref = b.record_ref,
                     !.authorization_epoch = @ + 1,
                     !.observation_refs = {},
                     !.response_integrity_ref = None,
                     !.causal_audit_ref = None,
                     !.continuity_snapshot_ref = None]
      [] b.kind = "Observation" ->
           [p EXCEPT !.observation_refs = @ \cup {b.record_ref},
                     !.response_integrity_ref = None,
                     !.causal_audit_ref = None,
                     !.continuity_snapshot_ref = None]
      [] b.kind = "ResponseIntegrity" ->
           [p EXCEPT !.response_integrity_ref = b.record_ref,
                     !.causal_audit_ref = None,
                     !.continuity_snapshot_ref = None]
      [] b.kind = "CausalAudit" ->
           [p EXCEPT !.causal_audit_ref = b.record_ref,
                     !.continuity_snapshot_ref = None]
      [] b.kind = "ContinuitySnapshot" ->
           [p EXCEPT !.continuity_snapshot_ref = b.record_ref]

UpdateProjection(p, event) ==
    LET b == event.body
    IN  [ProjectEvidence(p, b) EXCEPT
           !.dimensions = IF b.dimensions = None THEN @ ELSE b.dimensions,
           !.side_effect_committed = @ \/ b.side_effect_committed = TRUE,
           !.last_sequence = b.sequence,
           !.last_event_hash = event.event_hash,
           !.event_count = @ + 1]

ApplyEvent(st, event) ==
    LET b == event.body
        t == b.transition_id
    IN  [next_sequence   |-> st.next_sequence + 1,
         head_event_hash |-> event.event_hash,
         projections     |->
           Insert(st.projections, t,
                  IF t \in DOMAIN st.projections
                  THEN UpdateProjection(st.projections[t], event)
                  ELSE NewProjection(event)),
         record_owners   |->
           Insert(st.record_owners, b.record_ref,
                  [transition_id |-> t, subject_id |-> b.subject_id,
                   kind |-> b.kind])]

\* The event TrustworthyTransitionLedger::append builds from an input.
EventFor(st, input) ==
    LET body ==
          [sequence              |-> st.next_sequence,
           transition_id         |-> input.transition_id,
           subject_id            |-> input.subject_id,
           kind                  |-> input.kind,
           record_ref            |-> input.record_ref,
           links                 |-> input.links,
           dimensions            |-> input.dimensions,
           side_effect_committed |-> input.side_effect_committed,
           previous_event_hash   |-> st.head_event_hash]
    IN  [body |-> body, event_hash |-> Digest(body)]

-----------------------------------------------------------------------------
(* The state machine *)

Init ==
    /\ state = DefaultState
    /\ log = <<>>

\* append: an input that fails any check returns an error and changes
\* nothing; an admitted one reaches the log and then the projection.
AppendEvent(input) ==
    LET event == EventFor(state, input)
    IN  /\ WellFormed(input)
        /\ Accepts(state, event)
        /\ log' = Append(log, event)
        /\ state' = ApplyEvent(state, event)

Next ==
    /\ Len(log) < MaxEvents
    /\ \E input \in Inputs(state) : AppendEvent(input)

Spec == Init /\ [][Next]_vars
-----------------------------------------------------------------------------
(* Properties *)

ProjectionFields ==
    {"subject_id", "authorization_ref", "authorization_epoch",
     "observation_refs", "response_integrity_ref", "causal_audit_ref",
     "continuity_snapshot_ref", "dimensions", "side_effect_committed",
     "last_sequence", "last_event_hash", "event_count"}

IsProjection(p) ==
    /\ DOMAIN p = ProjectionFields
    /\ p.subject_id \in Subjects
    /\ p.authorization_ref \in Refs
    /\ p.authorization_epoch \in Nat
    /\ p.observation_refs \in SUBSET Refs
    /\ p.response_integrity_ref \in Opt(Refs)
    /\ p.causal_audit_ref \in Opt(Refs)
    /\ p.continuity_snapshot_ref \in Opt(Refs)
    /\ p.dimensions \in Opt(ExecutionState)
    /\ p.side_effect_committed \in BOOLEAN
    /\ p.last_sequence \in Nat
    /\ p.event_count \in Nat

IsLogged(b) ==
    /\ b.transition_id \in Transitions
    /\ b.subject_id \in Subjects
    /\ b.kind \in TransitionRecordKind
    /\ b.record_ref \in Refs
    /\ b.links \in TransitionLinks

\* Type invariant: the shape of LedgerState and of the logged records.  A
\* digest is a value of no particular set, so hashes are not constrained.
TypeOK ==
    /\ DOMAIN state = DOMAIN DefaultState
    /\ state.next_sequence \in Nat
    /\ DOMAIN state.projections \subseteq Transitions
    /\ \A t \in DOMAIN state.projections : IsProjection(state.projections[t])
    /\ DOMAIN state.record_owners \subseteq Refs
    /\ \A r \in DOMAIN state.record_owners :
         state.record_owners[r] \in RecordOwner
    /\ DOMAIN log = 1..Len(log)
    /\ \A i \in DOMAIN log : IsLogged(log[i].body)

\* The hash chain that open() verifies: record i has sequence i, names the
\* hash of record i-1 and carries its own digest, and the state holds the
\* next sequence and the head.
LogChained ==
    /\ state.next_sequence = Len(log) + 1
    /\ state.head_event_hash =
         IF log = <<>> THEN None ELSE log[Len(log)].event_hash
    /\ \A i \in DOMAIN log :
         /\ log[i].body.sequence = i
         /\ log[i].event_hash = Digest(log[i].body)
         /\ log[i].body.previous_event_hash =
              IF i = 1 THEN None ELSE log[i - 1].event_hash

\* record_owners is exactly the logged references: each was logged once, by
\* the transition, subject and kind it is filed under, and every record of a
\* transition has the subject of its projection (no reference crosses
\* transitions or subjects).
OwnersMatchLog ==
    /\ \A i, j \in DOMAIN log :
         log[i].body.record_ref = log[j].body.record_ref => i = j
    /\ \A i \in DOMAIN log :
         LET b == log[i].body
         IN  /\ b.record_ref \in DOMAIN state.record_owners
             /\ state.record_owners[b.record_ref] =
                  [transition_id |-> b.transition_id,
                   subject_id |-> b.subject_id, kind |-> b.kind]
             /\ b.transition_id \in DOMAIN state.projections
             /\ state.projections[b.transition_id].subject_id = b.subject_id
    /\ \A r \in DOMAIN state.record_owners :
         \E i \in DOMAIN log : log[i].body.record_ref = r

\* Every reference a projection shows was logged for that very transition, so
\* the ownership checks can only fail on a client's links, never on the
\* ledger's own.
RefsOwned ==
    \A t \in DOMAIN state.projections, r \in Refs :
      LET p == state.projections[t]
      IN  \/ r = p.authorization_ref
          \/ r \in p.observation_refs
          \/ r = p.response_integrity_ref
          \/ r = p.causal_audit_ref
          \/ r = p.continuity_snapshot_ref
          => /\ r \in DOMAIN state.record_owners
             /\ state.record_owners[r].transition_id = t

\* Record b is what projection p, of transition t, takes it for.
Current(p, t, b) ==
    /\ b.record_ref = p.authorization_ref =>
         b.kind = "Authorization" /\ b.transition_id = t
    /\ b.record_ref \in p.observation_refs =>
         /\ b.kind = "Observation"
         /\ b.links.authorization_ref = p.authorization_ref
    /\ b.record_ref = p.response_integrity_ref =>
         /\ b.kind = "ResponseIntegrity"
         /\ b.links.authorization_ref = p.authorization_ref
         /\ b.links.observation_refs = p.observation_refs
    /\ b.record_ref = p.causal_audit_ref =>
         /\ b.kind = "CausalAudit"
         /\ b.links.authorization_ref = p.authorization_ref
         /\ b.links.observation_refs = p.observation_refs
         /\ b.links.response_integrity_ref = p.response_integrity_ref
    /\ b.record_ref = p.continuity_snapshot_ref =>
         /\ b.kind = "ContinuitySnapshot"
         /\ b.links.authorization_ref = p.authorization_ref
         /\ b.links.observation_refs = p.observation_refs
         /\ b.links.response_integrity_ref = p.response_integrity_ref
         /\ b.links.causal_audit_ref = p.causal_audit_ref

\* A projection never shows stale evidence.  Whatever re-authorizations and
\* late observations came in between, the integrity record it shows was made
\* for exactly the observations and the authorization it shows, the causal
\* audit for that integrity record too, and the continuity snapshot for that
\* audit; each observation it shows was made under the authorization it shows.
EvidenceCurrent ==
    \A t \in DOMAIN state.projections, i \in DOMAIN log :
      Current(state.projections[t], t, log[i].body)

\* The authorizations of the same transition logged before record i.
EarlierAuthorizations(i) ==
    {j \in 1..(i - 1) :
       /\ log[j].body.transition_id = log[i].body.transition_id
       /\ log[j].body.kind = "Authorization"}

\* Read from the log alone: the first record of a transition is an
\* authorization that supersedes nothing, and every later one names the
\* latest authorization logged before it, never an earlier, superseded one.
CitesLatestAuthorization ==
    \A i \in DOMAIN log :
      \/ /\ EarlierAuthorizations(i) = {}
         /\ log[i].body.kind = "Authorization"
         /\ log[i].body.links.authorization_ref = None
      \/ \E j \in EarlierAuthorizations(i) :
           /\ \A k \in EarlierAuthorizations(i) : k <= j
           /\ log[i].body.links.authorization_ref = log[j].body.record_ref

\* No step takes back an outcome: an execution once observed and a side
\* effect once committed stay so, through re-authorizations too
\* (validate_monotonic_dimensions, validate_side_effect).
OutcomeNeverRollsBack ==
    [][\A t \in DOMAIN state.projections :
         LET p == state.projections[t]
             q == state'.projections[t]
         IN  /\ t \in DOMAIN state'.projections
             /\ p.dimensions = "ObservedExecuted" =>
                  q.dimensions = "ObservedExecuted"
             /\ p.side_effect_committed => q.side_effect_committed]_vars
=============================================================================
