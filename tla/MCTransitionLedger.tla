------------------------ MODULE MCTransitionLedger ------------------------
(***************************************************************************)
(* A small instance of TransitionLedger for TLC: three scenarios, one of   *)
(* which each behaviour plays.  "evidence" goes deep in one transition,    *)
(* "cross" has two transitions that cite each other's records, "outcome"   *)
(* reports every outcome.                                                  *)
(***************************************************************************)
EXTENDS TransitionLedger

VARIABLE scenario

OwnedOfKind(st, k) ==
    {r \in DOMAIN st.record_owners : st.record_owners[r].kind = k}

\* Links to any logged record of the fitting kind, current, superseded or of
\* another transition, or to none.
LinkOffers(st) ==
    [authorization_ref       : Opt(OwnedOfKind(st, "Authorization")),
     observation_refs        : SUBSET OwnedOfKind(st, "Observation"),
     response_integrity_ref  : Opt(OwnedOfKind(st, "ResponseIntegrity")),
     causal_audit_ref        : Opt(OwnedOfKind(st, "CausalAudit")),
     previous_continuity_ref : Opt(OwnedOfKind(st, "ContinuitySnapshot"))]

\* A reference already logged, or one that is not: which one makes no
\* difference, references being interchangeable.
RefOffers(st) ==
    LET used == DOMAIN st.record_owners
    IN  IF used = Refs THEN used ELSE used \cup {CHOOSE r \in Refs \ used : TRUE}

\* Every kind of record and every link; outcomes only where they are required.
EvidenceInputs(transitions, subjects, st) ==
    {input \in
       [transition_id : transitions, subject_id : subjects,
        kind : TransitionRecordKind, record_ref : RefOffers(st),
        links : LinkOffers(st), dimensions : {None, "NotObserved"},
        side_effect_committed : {None}] :
       (input.dimensions # None) <=> (input.kind = "ContinuitySnapshot")}

\* Every outcome an authorization or an observation can report.
OutcomeInputs(transitions, subjects, st) ==
    [transition_id : transitions, subject_id : subjects,
     kind : {"Authorization", "Observation"}, record_ref : RefOffers(st),
     links : LinkOffers(st),
     dimensions : {None, "NotObserved", "ObservedExecuted", "ObservedErrored"},
     side_effect_committed : {None, TRUE, FALSE}]

OneOf(S) == {CHOOSE x \in S : TRUE}

Offers(st) ==
    CASE scenario = "evidence" ->
           EvidenceInputs(OneOf(Transitions), OneOf(Subjects), st)
      [] scenario = "cross" -> EvidenceInputs(Transitions, Subjects, st)
      [] scenario = "outcome" ->
           OutcomeInputs(OneOf(Transitions), OneOf(Subjects), st)

\* Bounds: appends in each scenario.
Depth == [evidence |-> 7, cross |-> 5, outcome |-> 3]

\* What the module's own Next may offer: everything the scenarios do.
AllInputs(st) ==
    EvidenceInputs(Transitions, Subjects, st)
    \cup OutcomeInputs(Transitions, Subjects, st)

MCInit == Init /\ scenario \in DOMAIN Depth

MCNext ==
    /\ Len(log) < Depth[scenario]
    /\ \E input \in Offers(state) : AppendEvent(input)
    /\ UNCHANGED scenario

MCSpec == MCInit /\ [][MCNext]_<<vars, scenario>>
=============================================================================
