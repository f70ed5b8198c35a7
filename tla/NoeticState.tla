---------------------------- MODULE NoeticState ----------------------------
(***************************************************************************)
(* The state one noetic replica holds and the operations on it             *)
(* (liminal-bridge-net/src/noetic/state.rs).                               *)
(*                                                                         *)
(* A header, a top-k list or a policy bundle is a record of the content    *)
(* it stands for and the clock stamped on it (version, updated); hashes    *)
(* and sources are determined by these.                                    *)
(***************************************************************************)
EXTENDS NoeticCrdt

CONSTANTS Contents,   \* what models, epochs, seeds and policies may say
          NoContent   \* what the registers of a new replica say

NewState(peer) ==
    LET clock   == HlcNew(peer, 0)
        initial == Lww(NoContent, clock)
    IN  [peer |-> peer, clock |-> clock, credence |-> << >>,
         models |-> EmptyOrSet, epochs |-> EmptyOrSet, seeds |-> EmptyOrSet,
         model_topk |-> initial, seed_status |-> initial, policies |-> initial]

SetCredence(state, peer, value) ==
    [state EXCEPT !.credence =
        [p \in DOMAIN @ \cup {peer} |-> IF p = peer THEN value ELSE @[p]]]

\* The credences after a merge: the greater of what the two replicas hold.
MergedCredence(mine, theirs) ==
    [p \in DOMAIN mine \cup DOMAIN theirs |->
        IF p \notin DOMAIN theirs THEN mine[p]
        ELSE IF p \notin DOMAIN mine THEN theirs[p]
        ELSE Larger(mine[p], theirs[p])]

\* merge: the clocks of the entries are compared under the credences of both
\* replicas, which self.credence already joins by then.
MergeEntries(state, other) ==
    LET credence == MergedCredence(state.credence, other.credence)
    IN  [state EXCEPT
           !.credence    = credence,
           !.models      = OrSetMerge(@, other.models, credence),
           !.epochs      = OrSetMerge(@, other.epochs, credence),
           !.seeds       = OrSetMerge(@, other.seeds, credence),
           !.model_topk  = LwwMerge(@, other.model_topk, credence),
           !.seed_status = LwwMerge(@, other.seed_status, credence),
           !.policies    = LwwMerge(@, other.policies, credence)]

MergeState(state, other) ==
    [MergeEntries(state, other) EXCEPT
       !.clock = HlcMerged(state.clock, other.clock, state.peer,
                           Larger(state.clock.phys_ms, other.clock.phys_ms))]

-----------------------------------------------------------------------------
Header(content, clock) == [content |-> content, version |-> clock]

ApplyModelHeader(state, header) ==
    [state EXCEPT !.models = OrSetInsert(@, header, header.version, state.credence)]

ApplyEpoch(state, header) ==
    [state EXCEPT !.epochs = OrSetInsert(@, header, header.version, state.credence)]

ApplySeed(state, header) ==
    [state EXCEPT !.seeds = OrSetInsert(@, header, header.version, state.credence)]

UpdateSeedStatus(state, status, clock) ==
    [state EXCEPT !.seed_status = LwwMerge(@, Lww(status, clock), state.credence)]

UpdateModelTopK(state, entries, clock) ==
    [state EXCEPT !.model_topk = LwwMerge(@, Lww(entries, clock), state.credence)]

UpdatePolicy(state, bundle, clock) ==
    [state EXCEPT !.policies = LwwMerge(@, Lww(bundle, clock), state.credence)]

-----------------------------------------------------------------------------
\* What a replica shows: summary() reads it, and so does its snapshot.
Shown(state) ==
    [models      |-> OrSetElements(state.models, state.credence),
     epochs      |-> OrSetElements(state.epochs, state.credence),
     seeds       |-> OrSetElements(state.seeds, state.credence),
     model_topk  |-> state.model_topk,
     seed_status |-> state.seed_status,
     policies    |-> state.policies]

\* A snapshot keeps what is shown and the credences; restore() puts these
\* into a new replica.  The clock and the removals are not in a snapshot.
RestoredSet(headers) ==
    [adds |-> [h \in headers |-> h.version], removals |-> << >>]

Restored(state) ==
    [NewState(state.peer) EXCEPT
       !.credence    = state.credence,
       !.models      = RestoredSet(Shown(state).models),
       !.epochs      = RestoredSet(Shown(state).epochs),
       !.seeds       = RestoredSet(Shown(state).seeds),
       !.model_topk  = state.model_topk,
       !.seed_status = state.seed_status,
       !.policies    = state.policies]
=============================================================================
