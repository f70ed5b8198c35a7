----------------------- MODULE TransitionLedger_proof -----------------------
(***************************************************************************)
(* Proofs that the invariants of TransitionLedger hold for every set of    *)
(* transitions, subjects and references, every client and every number of  *)
(* records.                                                                *)
(***************************************************************************)
EXTENDS TransitionLedger, TLAPS

\* The fields of the projection that a first authorization creates.
LEMMA NewProjectionFields ==
    ASSUME NEW st, NEW input \in TransitionEventInput,
           st.next_sequence \in Nat,
           NEW event, event = EventFor(st, input)
    PROVE  /\ IsProjection(NewProjection(event))
           /\ NewProjection(event).subject_id = input.subject_id
           /\ NewProjection(event).authorization_ref = input.record_ref
           /\ NewProjection(event).observation_refs = {}
           /\ NewProjection(event).response_integrity_ref = None
           /\ NewProjection(event).causal_audit_ref = None
           /\ NewProjection(event).continuity_snapshot_ref = None
  BY DEF NewProjection, IsProjection, ProjectionFields, EventFor,
         TransitionEventInput, Opt

\* project_evidence_kind: which fields each record kind replaces, clears or keeps.
LEMMA ProjectEvidenceFields ==
    ASSUME NEW p, IsProjection(p), NEW b,
           b.kind \in TransitionRecordKind, b.record_ref \in Refs
    PROVE  LET q == ProjectEvidence(p, b)
           IN  /\ IsProjection(q)
               /\ q.subject_id = p.subject_id
               /\ q.dimensions = p.dimensions
               /\ q.side_effect_committed = p.side_effect_committed
               /\ q.authorization_ref =
                    IF b.kind = "Authorization" THEN b.record_ref
                                                ELSE p.authorization_ref
               /\ q.observation_refs =
                    IF b.kind = "Authorization" THEN {}
                    ELSE IF b.kind = "Observation"
                         THEN p.observation_refs \cup {b.record_ref}
                         ELSE p.observation_refs
               /\ q.response_integrity_ref =
                    IF b.kind \in {"Authorization", "Observation"} THEN None
                    ELSE IF b.kind = "ResponseIntegrity" THEN b.record_ref
                         ELSE p.response_integrity_ref
               /\ q.causal_audit_ref =
                    IF b.kind \in {"Authorization", "Observation",
                                   "ResponseIntegrity"} THEN None
                    ELSE IF b.kind = "CausalAudit" THEN b.record_ref
                         ELSE p.causal_audit_ref
               /\ q.continuity_snapshot_ref =
                    IF b.kind = "ContinuitySnapshot" THEN b.record_ref
                                                     ELSE None
  <1>1. CASE b.kind = "Authorization"
    <2> DEFINE n == p.authorization_epoch + 1
    <2>1. n \in Nat
      BY DEF IsProjection
    <2>2. ProjectEvidence(p, b) =
            [p EXCEPT !.authorization_ref = b.record_ref,
                      !.authorization_epoch = n,
                      !.observation_refs = {},
                      !.response_integrity_ref = None,
                      !.causal_audit_ref = None,
                      !.continuity_snapshot_ref = None]
      BY <1>1 DEF ProjectEvidence, IsProjection, ProjectionFields
    <2> HIDE DEF n
    <2> QED BY <1>1, <2>1, <2>2 DEF IsProjection, ProjectionFields, Opt
  <1>2. CASE b.kind = "Observation"
    <2>1. ProjectEvidence(p, b) =
            [p EXCEPT !.observation_refs = p.observation_refs \cup {b.record_ref},
                      !.response_integrity_ref = None,
                      !.causal_audit_ref = None,
                      !.continuity_snapshot_ref = None]
      BY <1>2 DEF ProjectEvidence, IsProjection, ProjectionFields
    <2> QED BY <1>2, <2>1 DEF IsProjection, ProjectionFields, Opt
  <1>3. CASE b.kind = "ResponseIntegrity"
    <2>1. ProjectEvidence(p, b) =
            [p EXCEPT !.response_integrity_ref = b.record_ref,
                      !.causal_audit_ref = None,
                      !.continuity_snapshot_ref = None]
      BY <1>3 DEF ProjectEvidence, IsProjection, ProjectionFields
    <2> QED BY <1>3, <2>1 DEF IsProjection, ProjectionFields, Opt
  <1>4. CASE b.kind = "CausalAudit"
    <2>1. ProjectEvidence(p, b) =
            [p EXCEPT !.causal_audit_ref = b.record_ref,
                      !.continuity_snapshot_ref = None]
      BY <1>4 DEF ProjectEvidence, IsProjection, ProjectionFields
    <2> QED BY <1>4, <2>1 DEF IsProjection, ProjectionFields, Opt
  <1>5. CASE b.kind = "ContinuitySnapshot"
    BY <1>5 DEF ProjectEvidence, IsProjection, ProjectionFields, Opt
  <1> QED BY <1>1, <1>2, <1>3, <1>4, <1>5 DEF TransitionRecordKind

\* What one applied record does to every field of its transition's projection.
LEMMA UpdateProjectionFields ==
    ASSUME NEW p, IsProjection(p), NEW st, NEW input \in TransitionEventInput,
           st.next_sequence \in Nat,
           NEW event, event = EventFor(st, input)
    PROVE  LET b == event.body
               q == UpdateProjection(p, event)
           IN  /\ IsProjection(q)
               /\ q.subject_id = p.subject_id
               /\ q.dimensions =
                    IF b.dimensions = None THEN p.dimensions ELSE b.dimensions
               /\ p.side_effect_committed => q.side_effect_committed
               /\ q.authorization_ref = ProjectEvidence(p, b).authorization_ref
               /\ q.observation_refs = ProjectEvidence(p, b).observation_refs
               /\ q.response_integrity_ref =
                    ProjectEvidence(p, b).response_integrity_ref
               /\ q.causal_audit_ref = ProjectEvidence(p, b).causal_audit_ref
               /\ q.continuity_snapshot_ref =
                    ProjectEvidence(p, b).continuity_snapshot_ref
  <1> DEFINE b == event.body
             e == ProjectEvidence(p, b)
             dim == IF b.dimensions = None THEN e.dimensions ELSE b.dimensions
             side == e.side_effect_committed \/ b.side_effect_committed = TRUE
             n == e.event_count + 1
  <1>1. /\ b.kind \in TransitionRecordKind
        /\ b.record_ref \in Refs
        /\ b.dimensions \in Opt(ExecutionState)
        /\ b.sequence \in Nat
    BY DEF EventFor, TransitionEventInput
  <1>2. /\ IsProjection(e)
        /\ e.subject_id = p.subject_id
        /\ e.dimensions = p.dimensions
        /\ e.side_effect_committed = p.side_effect_committed
    BY Zenon, <1>1, ProjectEvidenceFields
  <1> HIDE DEF e
  <1>3. /\ dim \in Opt(ExecutionState)
        /\ side \in BOOLEAN
        /\ n \in Nat
        /\ p.side_effect_committed => side
    BY <1>1, <1>2 DEF IsProjection
  <1>4. UpdateProjection(p, event) =
          [e EXCEPT !.dimensions = dim, !.side_effect_committed = side,
                    !.last_sequence = b.sequence,
                    !.last_event_hash = event.event_hash, !.event_count = n]
    BY <1>2 DEF UpdateProjection, e, IsProjection, ProjectionFields
  <1>5. dim = IF b.dimensions = None THEN p.dimensions ELSE b.dimensions
    BY <1>2
  <1> HIDE DEF dim, side, n
  <1> QED BY <1>1, <1>2, <1>3, <1>4, <1>5
             DEF IsProjection, ProjectionFields, e

\* The elements of a log with one more entry.
LEMMA AppendFacts ==
    ASSUME NEW S, NEW s \in Seq(S), NEW e
    PROVE  /\ Append(s, e) \in Seq(S \cup {e})
           /\ Len(Append(s, e)) = Len(s) + 1
           /\ Len(s) \in Nat
           /\ DOMAIN s = 1..Len(s)
           /\ DOMAIN Append(s, e) = 1..(Len(s) + 1)
           /\ \A i \in 1..Len(s) : Append(s, e)[i] = s[i]
           /\ Append(s, e)[Len(s) + 1] = e
           /\ Append(s, e) # <<>>
           /\ s = <<>> <=> Len(s) = 0
  <1>1. s \in Seq(S \cup {e})
    OBVIOUS
  <1>2. Append(s, e) \in Seq(S \cup {e})
    BY <1>1
  <1>3. /\ Len(Append(s, e)) = Len(s) + 1
        /\ Len(s) \in Nat
        /\ DOMAIN s = 1..Len(s)
    BY <1>1
  <1>4. /\ \A i \in 1..Len(s) : Append(s, e)[i] = s[i]
        /\ Append(s, e)[Len(s) + 1] = e
    BY <1>1
  <1>5. Append(s, e) # <<>>
    BY <1>3
  <1>6. s = <<>> <=> Len(s) = 0
    BY <1>1
  <1>7. DOMAIN Append(s, e) = 1..(Len(s) + 1)
    BY <1>2, <1>3
  <1> QED BY <1>2, <1>3, <1>4, <1>5, <1>6, <1>7

LogIsSeq == \E S : log \in Seq(S)

\* The inductive invariant.  EvidenceCurrent alone is not inductive: that a
\* new record's reference is none of those a projection shows follows from
\* RefsOwned, and that the log has no other record with that reference from
\* OwnersMatchLog.
IInv ==
    /\ LogIsSeq
    /\ TypeOK
    /\ LogChained
    /\ OwnersMatchLog
    /\ RefsOwned
    /\ EvidenceCurrent

\* The empty ledger satisfies the inductive invariant.
THEOREM InitIInv == Init => IInv
  <1> SUFFICES ASSUME Init PROVE IInv
    OBVIOUS
  <1>1. LogIsSeq /\ Len(log) = 0 /\ DOMAIN log = {}
    BY DEF Init, LogIsSeq
  <1> QED BY <1>1 DEF IInv, Init, DefaultState, TypeOK, LogChained,
                     OwnersMatchLog, RefsOwned, EvidenceCurrent, Opt

\* What apply_event leaves in each field of the state.
LEMMA ApplyEventFields ==
    ASSUME NEW st, NEW event
    PROVE  LET b == event.body
               r == ApplyEvent(st, event)
           IN  /\ DOMAIN r = DOMAIN DefaultState
               /\ r.next_sequence = st.next_sequence + 1
               /\ r.head_event_hash = event.event_hash
               /\ r.record_owners =
                    Insert(st.record_owners, b.record_ref,
                           [transition_id |-> b.transition_id,
                            subject_id |-> b.subject_id, kind |-> b.kind])
  BY DEF ApplyEvent, DefaultState

\* What an admitted record finds: a fresh reference and the head it chains to.
LEMMA AppendRecordFacts ==
    ASSUME IInv, NEW input, AppendEvent(input),
           NEW event, event = EventFor(state, input),
           NEW b, b = event.body, NEW t, t = input.transition_id
    PROVE  /\ input \in TransitionEventInput
           /\ IsLogged(b)
           /\ b.transition_id = t
           /\ b.subject_id = input.subject_id
           /\ b.sequence = Len(log) + 1
           /\ b.previous_event_hash =
                IF log = <<>> THEN None ELSE log[Len(log)].event_hash
           /\ event.event_hash = Digest(b)
           /\ b.record_ref \notin DOMAIN state.record_owners
           /\ Accepts(state, event)
           /\ state' = ApplyEvent(state, event)
  <1>1. /\ input \in TransitionEventInput
        /\ Accepts(state, event)
        /\ state' = ApplyEvent(state, event)
    BY DEF AppendEvent, WellFormed
  <1>2. /\ b.transition_id = t /\ b.subject_id = input.subject_id
        /\ b.kind = input.kind /\ b.record_ref = input.record_ref
        /\ b.links = input.links /\ event.event_hash = Digest(b)
        /\ b.sequence = state.next_sequence
        /\ b.previous_event_hash = state.head_event_hash
    BY DEF EventFor
  <1>3. IsLogged(b)
    BY <1>1, <1>2 DEF IsLogged, TransitionEventInput
  <1>4. /\ b.sequence = Len(log) + 1
        /\ b.previous_event_hash =
             IF log = <<>> THEN None ELSE log[Len(log)].event_hash
    BY <1>2 DEF IInv, LogChained
  <1>5. b.record_ref \notin DOMAIN state.record_owners
    BY <1>1 DEF Accepts
  <1> QED BY <1>1, <1>2, <1>3, <1>4, <1>5

\* What an admitted record leaves in the log: one more entry, at the end.
LEMMA AppendLogFacts ==
    ASSUME IInv, NEW input, AppendEvent(input),
           NEW event, event = EventFor(state, input)
    PROVE  /\ Len(log) \in Nat
           /\ DOMAIN log = 1..Len(log)
           /\ LogIsSeq'
           /\ log' # <<>>
           /\ Len(log') = Len(log) + 1
           /\ DOMAIN log' = 1..(Len(log) + 1)
           /\ \A i \in 1..Len(log) : log'[i] = log[i]
           /\ log'[Len(log) + 1] = event
           /\ log = <<>> <=> Len(log) = 0
  <1>1. log' = Append(log, event)
    BY DEF AppendEvent
  <1>2. PICK S : log \in Seq(S)
    BY DEF IInv, LogIsSeq
  <1>3. log' \in Seq(S \cup {event})
    BY <1>1, <1>2, AppendFacts
  <1> QED BY <1>1, <1>2, <1>3, AppendFacts DEF LogIsSeq

\* What an admitted record leaves in the projections: only that of its own
\* transition changes.
LEMMA AppendProjectionFacts ==
    ASSUME IInv, NEW input, AppendEvent(input),
           NEW event, event = EventFor(state, input),
           NEW t, t = input.transition_id
    PROVE  LET old == state.projections
               q == state'.projections[t]
           IN  /\ DOMAIN state'.projections = DOMAIN old \cup {t}
               /\ \A u \in DOMAIN old \ {t} : state'.projections[u] = old[u]
               /\ IsProjection(q)
               /\ q.subject_id = input.subject_id
               /\ t \notin DOMAIN old => q = NewProjection(event)
               /\ t \in DOMAIN old =>
                    /\ IsProjection(old[t])
                    /\ old[t].subject_id = input.subject_id
                    /\ q = UpdateProjection(old[t], event)
  <1> DEFINE old == state.projections
             q == state'.projections[t]
  <1>1. /\ input \in TransitionEventInput
        /\ Accepts(state, event)
        /\ event.body.transition_id = t
        /\ event.body.subject_id = input.subject_id
        /\ state' = ApplyEvent(state, event)
    BY AppendRecordFacts
  <1>2. state.next_sequence \in Nat /\ \A u \in DOMAIN old : IsProjection(old[u])
    BY DEF IInv, TypeOK
  <1>3. state'.projections =
          Insert(old, t, IF t \in DOMAIN old
                         THEN UpdateProjection(old[t], event)
                         ELSE NewProjection(event))
    BY <1>1 DEF ApplyEvent
  <1>4. /\ DOMAIN state'.projections = DOMAIN old \cup {t}
        /\ \A u \in DOMAIN old \ {t} : state'.projections[u] = old[u]
        /\ t \notin DOMAIN old => q = NewProjection(event)
        /\ t \in DOMAIN old => q = UpdateProjection(old[t], event)
    BY <1>3 DEF Insert
  <1>5. t \in DOMAIN old => old[t].subject_id = input.subject_id
    BY <1>1 DEF Accepts, AuthorizationAccepted, DependentAccepted
  <1>6. IsProjection(q) /\ q.subject_id = input.subject_id
    <2>1. CASE t \notin DOMAIN old
      BY <2>1, <1>1, <1>2, <1>4, NewProjectionFields
    <2>2. CASE t \in DOMAIN old
      BY <2>2, <1>1, <1>2, <1>4, <1>5, UpdateProjectionFields
    <2> QED BY <2>1, <2>2
  <1> QED BY <1>2, <1>4, <1>5, <1>6

\* The links apply_event insists on: a dependent record, and a replacement
\* authorization, cite what the projection of their transition shows.
LEMMA AcceptedLinks ==
    ASSUME NEW st, NEW event, Accepts(st, event),
           event.body.kind \in TransitionRecordKind
    PROVE  LET b == event.body
               p == st.projections[b.transition_id]
           IN  /\ b.kind # "Authorization" =>
                    b.transition_id \in DOMAIN st.projections
               /\ b.transition_id \in DOMAIN st.projections =>
                    b.links.authorization_ref = p.authorization_ref
               /\ b.kind \in {"ResponseIntegrity", "CausalAudit",
                             "ContinuitySnapshot"} =>
                    b.links.observation_refs = p.observation_refs
               /\ b.kind \in {"CausalAudit", "ContinuitySnapshot"} =>
                    b.links.response_integrity_ref = p.response_integrity_ref
               /\ b.kind = "ContinuitySnapshot" =>
                    b.links.causal_audit_ref = p.causal_audit_ref
  BY DEF Accepts, AuthorizationAccepted, DependentAccepted, EvidenceAccepted,
         ExpectOptionalRef, ExpectObservationSet, TransitionRecordKind

\* One admitted append preserves the inductive invariant.
LEMMA StepIInv ==
    ASSUME IInv, NEW input, AppendEvent(input),
           NEW event, event = EventFor(state, input),
           NEW b, b = event.body, NEW t, t = input.transition_id
    PROVE  IInv'
  <1> DEFINE old == state.projections
             new == state'.projections
             q == new[t]
             n == Len(log) + 1
  <1>rec. /\ input \in TransitionEventInput
          /\ IsLogged(b)
          /\ b.transition_id = t
          /\ b.subject_id = input.subject_id
          /\ Accepts(state, event)
    BY AppendRecordFacts
  <1>hash. /\ b.sequence = n
           /\ b.previous_event_hash =
                IF log = <<>> THEN None ELSE log[Len(log)].event_hash
           /\ event.event_hash = Digest(b)
    BY AppendRecordFacts
  <1>own. /\ b.transition_id = t
          /\ b.record_ref \notin DOMAIN state.record_owners
    BY AppendRecordFacts
  <1>app. state' = ApplyEvent(state, event)
    BY AppendRecordFacts
  <1>log. /\ Len(log) \in Nat
          /\ DOMAIN log = 1..Len(log)
          /\ DOMAIN log' = 1..n
          /\ \A i \in 1..Len(log) : log'[i] = log[i]
          /\ log'[n] = event
          /\ log'[n].body = b
    BY AppendLogFacts
  <1>len. /\ log' # <<>>
          /\ Len(log') = n
          /\ log = <<>> <=> n = 1
          /\ LogIsSeq'
    BY AppendLogFacts
  <1>prj. /\ DOMAIN new = DOMAIN old \cup {t}
          /\ \A u \in DOMAIN old \ {t} : new[u] = old[u]
    BY AppendProjectionFacts
  <1>q. /\ IsProjection(q)
        /\ q.subject_id = input.subject_id
        /\ t \notin DOMAIN old => q = NewProjection(event)
        /\ t \in DOMAIN old =>
             /\ IsProjection(old[t])
             /\ old[t].subject_id = input.subject_id
             /\ q = UpdateProjection(old[t], event)
    BY AppendProjectionFacts
  <1>2. /\ t \in Transitions
        /\ b.kind \in TransitionRecordKind
        /\ b.record_ref \in Refs
        /\ b.subject_id \in Subjects
    BY <1>rec DEF TransitionEventInput, IsLogged
  <1>seq. state.next_sequence \in Nat
    BY DEF IInv, TypeOK
  <1>3. ASSUME t \in DOMAIN old
        PROVE  LET p == old[t]
               IN  /\ q.authorization_ref =
                        IF b.kind = "Authorization" THEN b.record_ref
                                                    ELSE p.authorization_ref
                   /\ q.observation_refs =
                        IF b.kind = "Authorization" THEN {}
                        ELSE IF b.kind = "Observation"
                             THEN p.observation_refs \cup {b.record_ref}
                             ELSE p.observation_refs
                   /\ q.response_integrity_ref =
                        IF b.kind \in {"Authorization", "Observation"} THEN None
                        ELSE IF b.kind = "ResponseIntegrity" THEN b.record_ref
                             ELSE p.response_integrity_ref
                   /\ q.causal_audit_ref =
                        IF b.kind \in {"Authorization", "Observation",
                                       "ResponseIntegrity"} THEN None
                        ELSE IF b.kind = "CausalAudit" THEN b.record_ref
                             ELSE p.causal_audit_ref
                   /\ q.continuity_snapshot_ref =
                        IF b.kind = "ContinuitySnapshot" THEN b.record_ref
                                                         ELSE None
    <2> DEFINE p == old[t]
               e == ProjectEvidence(p, b)
    <2>1. IsProjection(p) /\ q = UpdateProjection(p, event)
      BY <1>q, <1>3
    <2>2. /\ q.authorization_ref = e.authorization_ref
          /\ q.observation_refs = e.observation_refs
          /\ q.response_integrity_ref = e.response_integrity_ref
          /\ q.causal_audit_ref = e.causal_audit_ref
          /\ q.continuity_snapshot_ref = e.continuity_snapshot_ref
      BY <1>rec, <1>seq, <2>1, UpdateProjectionFields
    <2> HIDE DEF p
    <2> QED BY <1>2, <2>1, <2>2, ProjectEvidenceFields DEF p
  <1>4. t \notin DOMAIN old =>
          /\ b.kind = "Authorization"
          /\ q.authorization_ref = b.record_ref
          /\ q.observation_refs = {}
          /\ q.response_integrity_ref = None
          /\ q.causal_audit_ref = None
          /\ q.continuity_snapshot_ref = None
    <2>1. b.record_ref = input.record_ref
      BY DEF EventFor
    <2>2. t \notin DOMAIN old => b.kind = "Authorization"
      BY <1>2, <1>rec, AcceptedLinks
    <2>3. t \notin DOMAIN old => q = NewProjection(event)
      BY <1>q
    <2> HIDE DEF q
    <2> QED BY <1>rec, <1>seq, <2>1, <2>2, <2>3, NewProjectionFields
  <1>5. state'.record_owners =
          Insert(state.record_owners, b.record_ref,
                 [transition_id |-> t, subject_id |-> b.subject_id,
                  kind |-> b.kind])
    BY <1>app, <1>own, ApplyEventFields
  <1>6. /\ DOMAIN state'.record_owners =
             DOMAIN state.record_owners \cup {b.record_ref}
        /\ \A r \in DOMAIN state.record_owners :
             state'.record_owners[r] = state.record_owners[r]
        /\ state'.record_owners[b.record_ref] =
             [transition_id |-> t, subject_id |-> b.subject_id,
              kind |-> b.kind]
    BY <1>own, <1>5 DEF Insert
  <1>7. TypeOK'
    <2>1. /\ DOMAIN state' = DOMAIN DefaultState
          /\ state'.next_sequence = state.next_sequence + 1
      BY Zenon, <1>app, ApplyEventFields
    <2>2. \A u \in DOMAIN new : u \in Transitions /\ IsProjection(new[u])
      BY <1>q, <1>2, <1>prj DEF IInv, TypeOK
    <2>3. \A r \in DOMAIN state'.record_owners :
            r \in Refs /\ state'.record_owners[r] \in RecordOwner
      BY <1>2, <1>6 DEF IInv, TypeOK, RecordOwner
    <2>4. \A i \in DOMAIN log' : IsLogged(log'[i].body)
      BY <1>rec, <1>log DEF IInv, TypeOK
    <2>5. state'.next_sequence \in Nat
      BY <2>1, <1>seq
    <2> QED BY <2>1, <2>2, <2>3, <2>4, <2>5 DEF TypeOK
  <1>8. LogChained'
    <2>1. /\ state'.next_sequence = Len(log') + 1
          /\ state'.head_event_hash = log'[Len(log')].event_hash
          /\ log' # <<>>
      <3>1. /\ state'.next_sequence = state.next_sequence + 1
            /\ state'.head_event_hash = event.event_hash
        BY Zenon, <1>app, ApplyEventFields
      <3>2. state.next_sequence = Len(log) + 1
        BY DEF IInv, LogChained
      <3> QED BY <3>1, <3>2, <1>log, <1>len
    <2>2. ASSUME NEW i \in DOMAIN log'
          PROVE  /\ log'[i].body.sequence = i
                 /\ log'[i].event_hash = Digest(log'[i].body)
                 /\ log'[i].body.previous_event_hash =
                      IF i = 1 THEN None ELSE log'[i - 1].event_hash
      <3>1. CASE i \in 1..Len(log)
        BY <3>1, <1>log DEF IInv, LogChained
      <3>2. CASE i = n
        BY <3>2, <1>log, <1>len, <1>hash
      <3> QED BY <3>1, <3>2, <1>log
    <2> QED BY <2>1, <2>2 DEF LogChained
  <1>9. OwnersMatchLog'
    <2>1. \A i \in 1..Len(log) :
            /\ log[i].body.record_ref \in DOMAIN state.record_owners
            /\ log[i].body.record_ref # b.record_ref
      BY Zenon, <1>log, <1>own DEF IInv, OwnersMatchLog
    <2>2. \A i, j \in DOMAIN log' :
            log'[i].body.record_ref = log'[j].body.record_ref => i = j
      BY <2>1, <1>log DEF IInv, OwnersMatchLog
    <2>3. ASSUME NEW i \in DOMAIN log'
          PROVE  LET c == log'[i].body
                 IN  /\ c.record_ref \in DOMAIN state'.record_owners
                     /\ state'.record_owners[c.record_ref] =
                          [transition_id |-> c.transition_id,
                           subject_id |-> c.subject_id, kind |-> c.kind]
                     /\ c.transition_id \in DOMAIN new
                     /\ new[c.transition_id].subject_id = c.subject_id
      <3>1. CASE i \in 1..Len(log)
        <4> DEFINE c == log[i].body
        <4>1. /\ log'[i] = log[i]
              /\ c.record_ref \in DOMAIN state.record_owners
              /\ state.record_owners[c.record_ref] =
                   [transition_id |-> c.transition_id,
                    subject_id |-> c.subject_id, kind |-> c.kind]
              /\ c.transition_id \in DOMAIN old
              /\ old[c.transition_id].subject_id = c.subject_id
          BY <3>1, <1>log DEF IInv, OwnersMatchLog
        <4> HIDE DEF c
        <4>2. /\ c.transition_id \in DOMAIN new
              /\ new[c.transition_id].subject_id = c.subject_id
          <5>1. CASE c.transition_id = t
            <6>1. old[t].subject_id = q.subject_id
              BY <5>1, <4>1, <1>q
            <6> QED BY <6>1, <5>1, <4>1, <1>prj
          <5>2. CASE c.transition_id # t
            BY <5>2, <4>1, <1>prj
          <5> QED BY <5>1, <5>2
        <4> QED BY <4>1, <4>2, <1>6 DEF c
      <3>2. CASE i = n
        <4>1. q.subject_id = b.subject_id
          BY <1>q, <1>rec
        <4> QED BY <3>2, <4>1, <1>log, <1>prj, <1>own, <1>6
      <3> QED BY <3>1, <3>2, <1>log
    <2>4. \A r \in DOMAIN state'.record_owners :
            \E i \in DOMAIN log' : log'[i].body.record_ref = r
      BY <1>log, <1>6 DEF IInv, OwnersMatchLog
    <2> QED BY <2>2, <2>3, <2>4 DEF OwnersMatchLog
  <1>10. RefsOwned'
    <2> DEFINE Shows(p, r) ==
          \/ r = p.authorization_ref
          \/ r \in p.observation_refs
          \/ r = p.response_integrity_ref
          \/ r = p.causal_audit_ref
          \/ r = p.continuity_snapshot_ref
    <2>1. ASSUME NEW r \in Refs, Shows(q, r)
          PROVE  r = b.record_ref \/ (t \in DOMAIN old /\ Shows(old[t], r))
      <3> HIDE DEF q
      <3>1. CASE t \in DOMAIN old
        BY <2>1, <3>1, <1>3, <1>2, LedgerAssumption DEF TransitionRecordKind
      <3>2. CASE t \notin DOMAIN old
        BY <2>1, <3>2, <1>4, LedgerAssumption
      <3> QED BY <3>1, <3>2
    <2>2. ASSUME NEW u \in DOMAIN old, NEW r \in Refs, Shows(old[u], r)
          PROVE  /\ r \in DOMAIN state.record_owners
                 /\ state.record_owners[r].transition_id = u
      BY <2>2 DEF IInv, RefsOwned
    <2> SUFFICES ASSUME NEW u \in DOMAIN new, NEW r \in Refs, Shows(new[u], r)
                 PROVE  /\ r \in DOMAIN state'.record_owners
                        /\ state'.record_owners[r].transition_id = u
      BY DEF RefsOwned
    <2> HIDE DEF Shows
    <2>3. \/ u = t /\ r = b.record_ref
          \/ u \in DOMAIN old /\ Shows(old[u], r)
      BY <2>1, <1>prj
    <2> QED BY <2>2, <2>3, <1>6
  <1>11. EvidenceCurrent'
    <2> SUFFICES ASSUME NEW u \in DOMAIN new, NEW i \in DOMAIN log'
                 PROVE  Current(new[u], u, log'[i].body)
      BY DEF EvidenceCurrent, Current
    <2> DEFINE c == log'[i].body
    <2>1. \A v \in DOMAIN old, j \in 1..Len(log) :
            Current(old[v], v, log[j].body)
      BY <1>log DEF IInv, EvidenceCurrent, Current
    <2>2. \A j \in 1..Len(log) :
            /\ log[j].body.record_ref # b.record_ref
            /\ log[j].body.record_ref \in Refs
      BY Zenon, <1>log, <1>own DEF IInv, OwnersMatchLog, TypeOK, IsLogged
    <2>3. CASE u # t
      <3>1. u \in DOMAIN old /\ new[u] = old[u]
        BY <2>3, <1>prj
      <3>2. CASE i = n
        <4>1. c = b
          BY <3>2, <1>log
        <4>2. /\ b.record_ref # old[u].authorization_ref
              /\ b.record_ref \notin old[u].observation_refs
              /\ b.record_ref # old[u].response_integrity_ref
              /\ b.record_ref # old[u].causal_audit_ref
              /\ b.record_ref # old[u].continuity_snapshot_ref
          BY <3>1, <1>own, <1>2, LedgerAssumption DEF IInv, RefsOwned
        <4> QED BY <3>1, <4>1, <4>2 DEF Current
      <3> QED BY <2>1, <3>1, <3>2, <1>log
    <2>4. CASE u = t /\ i # n
      <3> SUFFICES Current(q, t, c)
        BY <2>4
      <3>1. i \in 1..Len(log) /\ c = log[i].body
        BY <2>4, <1>log
      <3> HIDE DEF c
      <3>2. c.record_ref # b.record_ref /\ c.record_ref \in Refs
        BY <2>2, <3>1
      <3> HIDE DEF q
      <3>3. CASE t \notin DOMAIN old
        BY <3>2, <3>3, <1>4, LedgerAssumption DEF Current
      <3>4. CASE t \in DOMAIN old
        <4>1. Current(old[t], t, c)
          BY <2>1, <3>1, <3>4
        <4> QED BY <4>1, <3>2, <3>4, <1>2, <1>3, LedgerAssumption
                DEF Current, TransitionRecordKind
      <3> QED BY <3>3, <3>4
    <2>5. CASE u = t /\ i = n
      <3> SUFFICES Current(q, t, b)
        BY <2>5, <1>log
      <3> HIDE DEF q
      <3>1. CASE t \notin DOMAIN old
        BY <3>1, <1>own, <1>2, <1>4, LedgerAssumption DEF Current
      <3>2. CASE t \in DOMAIN old
        <4>1. /\ b.record_ref # old[t].authorization_ref
              /\ b.record_ref \notin old[t].observation_refs
              /\ b.record_ref # old[t].response_integrity_ref
              /\ b.record_ref # old[t].causal_audit_ref
              /\ b.record_ref # old[t].continuity_snapshot_ref
          BY <3>2, <1>own, <1>2, LedgerAssumption DEF IInv, RefsOwned
        <4>2. /\ b.links.authorization_ref = old[t].authorization_ref
              /\ b.kind \in {"ResponseIntegrity", "CausalAudit",
                            "ContinuitySnapshot"} =>
                   b.links.observation_refs = old[t].observation_refs
              /\ b.kind \in {"CausalAudit", "ContinuitySnapshot"} =>
                   b.links.response_integrity_ref =
                     old[t].response_integrity_ref
              /\ b.kind = "ContinuitySnapshot" =>
                   b.links.causal_audit_ref = old[t].causal_audit_ref
          BY <3>2, <1>rec, <1>2, AcceptedLinks
        <4> HIDE DEF old
        <4> QED BY <4>1, <4>2, <3>2, <1>own, <1>2, <1>3, LedgerAssumption
                DEF Current, TransitionRecordKind
      <3> QED BY <3>1, <3>2
    <2> QED BY <2>3, <2>4, <2>5
  <1> QED BY <1>len, <1>7, <1>8, <1>9, <1>10, <1>11 DEF IInv

\* Every reachable state satisfies the inductive invariant.
THEOREM Invariance == Spec => []IInv
  <1>1. IInv /\ [Next]_vars => IInv'
    <2> SUFFICES ASSUME IInv, [Next]_vars PROVE IInv'
      OBVIOUS
    <2>1. CASE Next
      <3>1. PICK input : AppendEvent(input)
        BY <2>1 DEF Next
      <3>2. PICK event : event = EventFor(state, input)
        OBVIOUS
      <3> QED BY <3>1, <3>2, StepIInv
    <2>2. CASE UNCHANGED vars
      BY <2>2 DEF vars, IInv, LogIsSeq, TypeOK, LogChained, OwnersMatchLog,
                  RefsOwned, EvidenceCurrent
    <2> QED BY <2>1, <2>2
  <1> QED BY <1>1, InitIInv, PTL DEF Spec

\* LedgerState and the log are well formed, whatever a client appends.
THEOREM TypeCorrect == Spec => []TypeOK
  BY Invariance, PTL DEF IInv

\* The write-ahead log is one unbroken hash chain from sequence 1 to the head.
THEOREM LogIsChained == Spec => []LogChained
  BY Invariance, PTL DEF IInv

\* record_owners files every logged reference once, and only those.
THEOREM OwnersCorrect == Spec => []OwnersMatchLog
  BY Invariance, PTL DEF IInv

\* A projection shows only references logged for its own transition.
THEOREM ShownRefsAreOwned == Spec => []RefsOwned
  BY Invariance, PTL DEF IInv

\* A projection never shows stale evidence: re-authorization and late
\* observations drop everything that was concluded without them.
THEOREM EvidenceIsCurrent == Spec => []EvidenceCurrent
  BY Invariance, PTL DEF IInv

\* No append takes back an observed execution or a committed side effect.
THEOREM OutcomeIsStable == Spec => OutcomeNeverRollsBack
  <1> DEFINE Stable ==
        \A t \in DOMAIN state.projections :
          LET p == state.projections[t]
              q == state'.projections[t]
          IN  /\ t \in DOMAIN state'.projections
              /\ p.dimensions = "ObservedExecuted" =>
                   q.dimensions = "ObservedExecuted"
              /\ p.side_effect_committed => q.side_effect_committed
  <1>1. ASSUME IInv, [Next]_vars
        PROVE  [Stable]_vars
    <2>1. CASE UNCHANGED vars
      BY <2>1
    <2>2. CASE Next
      <3>1. PICK input : AppendEvent(input)
        BY <2>2 DEF Next
      <3> DEFINE t == input.transition_id
                 old == state.projections
                 new == state'.projections
      <3>event. PICK event : event = EventFor(state, input)
        OBVIOUS
      <3>2. /\ input \in TransitionEventInput
            /\ Accepts(state, event)
            /\ event.body.transition_id = t
            /\ DOMAIN new = DOMAIN old \cup {t}
            /\ \A u \in DOMAIN old \ {t} : new[u] = old[u]
            /\ t \in DOMAIN old =>
                 /\ IsProjection(old[t])
                 /\ new[t] = UpdateProjection(old[t], event)
        BY <1>1, <3>1, <3>event, AppendRecordFacts, AppendProjectionFacts
      <3>3. state.next_sequence \in Nat
        BY <1>1 DEF IInv, TypeOK
      <3>4. ASSUME t \in DOMAIN old
            PROVE  /\ old[t].dimensions = "ObservedExecuted" =>
                        new[t].dimensions = "ObservedExecuted"
                   /\ old[t].side_effect_committed =>
                        new[t].side_effect_committed
        <4>1. ValidateMonotonicDimensions(old[t].dimensions,
                                          event.body.dimensions)
          BY <3>2, <3>4 DEF Accepts, AuthorizationAccepted, DependentAccepted,
                            OutcomeAccepted
        <4>2. /\ new[t].dimensions =
                   IF event.body.dimensions = None THEN old[t].dimensions
                   ELSE event.body.dimensions
              /\ old[t].side_effect_committed =>
                   new[t].side_effect_committed
          BY <3>2, <3>3, <3>4, <3>event, UpdateProjectionFields
        <4> QED BY <4>1, <4>2 DEF ValidateMonotonicDimensions
      <3> QED BY <3>2, <3>4
    <2> QED BY <1>1, <2>1, <2>2
  <1> QED BY <1>1, Invariance, PTL DEF Spec, OutcomeNeverRollsBack

\* The authorization a projection shows is the latest one in the log: what
\* CitesLatestAuthorization needs to be inductive.
LatestShown ==
    \A t \in DOMAIN state.projections :
      \E j \in DOMAIN log :
        /\ log[j].body.transition_id = t
        /\ log[j].body.kind = "Authorization"
        /\ log[j].body.record_ref = state.projections[t].authorization_ref
        /\ \A k \in DOMAIN log :
             log[k].body.transition_id = t /\ log[k].body.kind = "Authorization"
             => k <= j

\* One admitted append keeps every citation in the log of the latest
\* authorization before it.
LEMMA StepLatest ==
    ASSUME IInv, LatestShown, CitesLatestAuthorization,
           NEW input, AppendEvent(input),
           NEW event, event = EventFor(state, input),
           NEW b, b = event.body, NEW t, t = input.transition_id
    PROVE  LatestShown' /\ CitesLatestAuthorization'
  <1> DEFINE old == state.projections
             new == state'.projections
             n == Len(log) + 1
  <1>log. /\ Len(log) \in Nat
          /\ DOMAIN log = 1..Len(log)
          /\ DOMAIN log' = 1..n
          /\ \A i \in 1..Len(log) : log'[i] = log[i]
          /\ log'[n].body = b
    BY AppendLogFacts
  <1>prj. /\ DOMAIN new = DOMAIN old \cup {t}
          /\ \A u \in DOMAIN old \ {t} : new[u] = old[u]
    BY AppendProjectionFacts
  <1>rec. /\ input \in TransitionEventInput
          /\ Accepts(state, event)
          /\ b.transition_id = t
    BY AppendRecordFacts
  <1>1. /\ t \notin DOMAIN old => new[t] = NewProjection(event)
        /\ t \in DOMAIN old =>
             /\ IsProjection(old[t])
             /\ new[t] = UpdateProjection(old[t], event)
    BY AppendProjectionFacts
  <1>2. /\ b.kind \in TransitionRecordKind
        /\ b.record_ref \in Refs
    <2>1. IsLogged(b)
      BY AppendRecordFacts
    <2> QED BY <2>1 DEF IsLogged
  <1>seq. state.next_sequence \in Nat
    BY DEF IInv, TypeOK
  <1>ref. b.record_ref = input.record_ref
    BY DEF EventFor
  <1>3. t \in DOMAIN old =>
          new[t].authorization_ref =
            IF b.kind = "Authorization" THEN b.record_ref
                                        ELSE old[t].authorization_ref
    <2> SUFFICES ASSUME t \in DOMAIN old
                 PROVE  new[t].authorization_ref =
                          IF b.kind = "Authorization" THEN b.record_ref
                          ELSE old[t].authorization_ref
      OBVIOUS
    <2> DEFINE p == old[t]
    <2>1. new[t].authorization_ref = ProjectEvidence(p, b).authorization_ref
      BY <1>1, <1>rec, <1>seq, UpdateProjectionFields
    <2>2. IsProjection(p)
      BY <1>1
    <2> HIDE DEF p
    <2>3. ASSUME NEW c, c.kind \in TransitionRecordKind, c.record_ref \in Refs
          PROVE  ProjectEvidence(p, c).authorization_ref =
                   IF c.kind = "Authorization" THEN c.record_ref
                                               ELSE p.authorization_ref
      BY Zenon, <2>2, <2>3, ProjectEvidenceFields
    <2> QED BY <1>2, <2>1, <2>3 DEF p
  <1>4. ASSUME t \notin DOMAIN old
        PROVE  /\ new[t].authorization_ref = b.record_ref
               /\ b.kind = "Authorization"
               /\ b.links.authorization_ref = None
    <2>1. new[t].authorization_ref = b.record_ref
      BY <1>1, <1>rec, <1>4, <1>seq, <1>ref, NewProjectionFields
    <2>2. b.kind = "Authorization"
      BY <1>rec, <1>2, <1>4, AcceptedLinks
    <2>3. b.links.authorization_ref = None
      BY <1>rec, <1>4, <2>2 DEF Accepts, AuthorizationAccepted
    <2> QED BY <2>1, <2>2, <2>3
  <1>5. t \in DOMAIN old =>
          b.links.authorization_ref = old[t].authorization_ref
    BY <1>rec, <1>2, AcceptedLinks
  <1>6. LatestShown'
    <2> SUFFICES ASSUME NEW u \in DOMAIN new
                 PROVE  \E j \in DOMAIN log' :
                          /\ log'[j].body.transition_id = u
                          /\ log'[j].body.kind = "Authorization"
                          /\ log'[j].body.record_ref = new[u].authorization_ref
                          /\ \A k \in DOMAIN log' :
                               /\ log'[k].body.transition_id = u
                               /\ log'[k].body.kind = "Authorization"
                               => k <= j
      BY DEF LatestShown
    <2>1. CASE u = t /\ b.kind = "Authorization"
      BY <2>1, <1>log, <1>rec, <1>3, <1>4
    <2>2. CASE ~ (u = t /\ b.kind = "Authorization")
      <3>1. u \in DOMAIN old /\ new[u].authorization_ref = old[u].authorization_ref
        BY <2>2, <1>prj, <1>3, <1>4
      <3>2. PICK j \in 1..Len(log) :
              /\ log[j].body.transition_id = u
              /\ log[j].body.kind = "Authorization"
              /\ log[j].body.record_ref = old[u].authorization_ref
              /\ \A k \in 1..Len(log) :
                   /\ log[k].body.transition_id = u
                   /\ log[k].body.kind = "Authorization"
                   => k <= j
        BY <3>1, <1>log, <1>rec DEF LatestShown
      <3> HIDE DEF old, new
      <3>3. /\ j \in DOMAIN log'
            /\ log'[j].body.transition_id = u
            /\ log'[j].body.kind = "Authorization"
            /\ log'[j].body.record_ref = new[u].authorization_ref
        BY <3>1, <3>2, <1>log, <1>rec
      <3>4. ASSUME NEW k \in DOMAIN log',
                   log'[k].body.transition_id = u,
                   log'[k].body.kind = "Authorization"
            PROVE  k <= j
        BY <2>2, <3>2, <3>4, <1>log, <1>rec
      <3> QED BY <3>3, <3>4
    <2> QED BY <2>1, <2>2
  <1>7. CitesLatestAuthorization'
    <2> DEFINE Earlier(i) ==
          {j \in 1..(i - 1) :
             /\ log'[j].body.transition_id = log'[i].body.transition_id
             /\ log'[j].body.kind = "Authorization"}
    <2> SUFFICES ASSUME NEW i \in DOMAIN log'
                 PROVE  \/ /\ Earlier(i) = {}
                           /\ log'[i].body.kind = "Authorization"
                           /\ log'[i].body.links.authorization_ref = None
                        \/ \E j \in Earlier(i) :
                             /\ \A k \in Earlier(i) : k <= j
                             /\ log'[i].body.links.authorization_ref =
                                  log'[j].body.record_ref
      BY DEF CitesLatestAuthorization, EarlierAuthorizations
    <2>1. CASE i \in 1..Len(log)
      <3>1. Earlier(i) = EarlierAuthorizations(i) /\ log'[i] = log[i]
        BY <2>1, <1>log, <1>rec DEF EarlierAuthorizations
      <3>2. \A j \in Earlier(i) : log'[j] = log[j]
        BY <2>1, <1>log, <1>rec
      <3> HIDE DEF Earlier
      <3> QED BY <2>1, <3>1, <3>2, <1>log, <1>rec DEF CitesLatestAuthorization
    <2>2. CASE i = n /\ t \notin DOMAIN old
      <3>1. \A j \in 1..Len(log) : log[j].body.transition_id # t
        <4>1. \A j \in DOMAIN log : log[j].body.transition_id \in DOMAIN old
          BY Zenon DEF IInv, OwnersMatchLog
        <4> QED BY <4>1, <2>2, <1>log, <1>rec
      <3>2. Earlier(i) = {}
        BY <2>2, <3>1, <1>log, <1>rec
      <3> QED BY <2>2, <3>2, <1>log, <1>rec, <1>4
    <2>3. CASE i = n /\ t \in DOMAIN old
      <3>1. PICK j \in 1..Len(log) :
              /\ log[j].body.transition_id = t
              /\ log[j].body.kind = "Authorization"
              /\ log[j].body.record_ref = old[t].authorization_ref
              /\ \A k \in 1..Len(log) :
                   /\ log[k].body.transition_id = t
                   /\ log[k].body.kind = "Authorization"
                   => k <= j
        BY Zenon, <2>3, <1>log, <1>rec DEF LatestShown
      <3>2. j \in Earlier(i) /\ \A k \in Earlier(i) : k <= j
        BY <2>3, <3>1, <1>log, <1>rec
      <3> HIDE DEF Earlier
      <3> QED BY <2>3, <3>1, <3>2, <1>log, <1>rec, <1>5
    <2>4. i \in 1..Len(log) \/ i = n
      BY <1>log, <1>rec
    <2> HIDE DEF Earlier, n, old
    <2> QED BY <2>1, <2>2, <2>3, <2>4
  <1> QED BY <1>6, <1>7

\* Read from the log alone, no record was ever admitted under a superseded
\* authorization.
THEOREM AuthorizationIsLatest == Spec => []CitesLatestAuthorization
  <1> DEFINE Inv == LatestShown /\ CitesLatestAuthorization
  <1>1. Init => Inv
    BY DEF Init, DefaultState, LatestShown, CitesLatestAuthorization
  <1>2. IInv /\ Inv /\ [Next]_vars => Inv'
    <2> SUFFICES ASSUME IInv, Inv, [Next]_vars PROVE Inv'
      OBVIOUS
    <2>1. CASE Next
      <3>1. PICK input : AppendEvent(input)
        BY <2>1 DEF Next
      <3>2. PICK event : event = EventFor(state, input)
        OBVIOUS
      <3> QED BY <3>1, <3>2, StepLatest
    <2>2. CASE UNCHANGED vars
      BY <2>2 DEF vars, LatestShown, CitesLatestAuthorization,
                  EarlierAuthorizations
    <2> QED BY <2>1, <2>2
  <1> QED BY <1>1, <1>2, Invariance, PTL DEF Spec
=============================================================================
