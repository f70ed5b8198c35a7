# LiminalDB: a verification project

TLA+ models of LiminalDB (the durable store and the ledgers built on it, the
noetic replication, the cluster field and its journal, and the loop, servers,
bridges and clients around it), TLC configurations that check them on small
instances, and TLAPS proofs of the properties that matter most. Paths are
relative to the repository; `store/` stands for
`liminal-db/crates/liminal-store/src/`, `core/` for `liminal-core/src/`, `net/` for
`liminal-bridge-net/src/` and `abi/` for `liminal-bridge-abi/src/` beside it.

## The system and its parts

| Part | State | Operations | Hard behaviours |
| --- | --- | --- | --- |
| Write-ahead log (`store/wal.rs`) | numbered segment files, the writer's segment and size | open and tail repair, append, rotate, sync, stream | crash between any two writes, torn frames, failing sync, rotation boundary |
| Transition ledger (`store/trustworthy_transition.rs`) | log, projections, record owners, head hash, poisoned flag | open, append, write snapshot | admission rules over long sequences; ambiguous append failure; two replays that must agree |
| Snapshot replacement (`store/snapshot_durability.rs`) | snapshot, rollback and temporary file | replace, wrapper, tidy-up | crash or I/O error between any two file operations, two layers over the same names |
| ProofPath ingestion (`store/proofpath_durable.rs`) | log, index by operation, poisoned flag | open, idempotent append | lost acknowledgement and retry, conflicting evidence |
| Signed checkpoints (`store/checkpoint.rs`) | manifests, key registry, external anchor | material, sign, verify one, verify chain | stale snapshot info, restored older copy, expiry and revocation boundaries |
| Governance bridge (`store/governance_checkpoint_bridge.rs`) | the ledger's and its lock | validate, append, snapshot, sign, receipt | concurrent callers, a failure between the steps, retry |
| Field journal store (`store/journal_impl.rs`, `gc.rs`, `snapshot.rs`) | log, field snapshots, manifest | append delta, snapshot, load, collect segments | crash between snapshot, manifest and collection; appends that fail, after which the field goes on |
| Cluster field (`core/cluster_field.rs`, `node_cell.rs`, `dream_engine.rs`, `synchrony.rs`, `awakening.rs`, `resonant.rs`) | cells, links, token index, link scores, routes, rules, views, seeds | impulses, ticks, trims, dreams, awakening, commands, replay of deltas | the live field and the replayed one must agree; tracking of what died |
| Reflex feedback and life loop (`core/reflex/feedback.rs`, `life_loop.rs`) | tick length, saved ticks, schedules, cooldowns | iterate, dream, collective dream, regulate | slowdowns that overlap, in any order of beginnings and ends |
| Noetic replication (`net/noetic`) | replicated sets and registers, proposals and votes | merge, propose, vote | lost, duplicated, reordered messages; clocks that jump |
| Bridge hub, WebSocket server (`net/lib.rs`, `ws_server.rs`) | two broadcast channels, command queue, registry, four tasks a session | attach, publish, handle, tear down | slow clients, lagging receivers, one half of a connection ends |
| C bridge (`abi/ffi.rs`, `protocol.rs`) | the outbox | init, push, pull, background threads | pulls whose buffer is too small while threads post |
| SDKs (`sdk/ts/src/client.ts`, `sdk/rust/src/lib.rs`) | sockets, queue, limiter, reconnection | connect, send, flush, reconnect, heartbeat | superseded sockets, commands while disconnected, lost wake-ups |
| Query language (`core/lql.rs`) | none | parse | hand-moved indices, optional clauses in any order |

How they interact: every durable component writes through one `Store` (the log).
The transition ledger adds snapshot files to it; checkpoints sign what ledger and
snapshot agree on; the governance bridge runs the three in one call; ProofPath
ingestion is a second ledger with its own log. The field journal uses the same
log for the cluster field's deltas, with snapshots of another format. The life loop
ticks the field and decides when it dreams; the command-line host and the C bridge
own a field each, restart it from the journal, and pass commands in and events out,
through the hub and its sessions or through the outbox. The SDKs are the other end of
a session. The noetic state is replicated beside the field.

## Modules

| Module | Models | Correspondence |
| --- | --- | --- |
| `Wal` | `Store`, `WalWriter`, `WalStream` | a file is a sequence of cells (length, payload cells, checksum, stub of a half-written field); one action per write, sync and file operation of `append` and `rotate`; `AppendFails`, `AppendTears`, `Crash`, `CrashPower` interrupt them anywhere, and the store may be appended to after a failure |
| `DurableLog` | what the log promises | acknowledged records stay, in order; an unacknowledged one may appear once |
| `TransitionLedger` | `append`, `apply_event` and the projection | one action; `Accepts` is the conjunction of its checks, `ApplyEvent` its effect |
| `SnapshotReplace` | both snapshot writers | a program counter over the file operations; every step may fail or crash |
| `SnapshotCell` | what they promise | one cell replaced atomically |
| `LedgerRecovery` | `open`, `append`, `write_snapshot` over log and snapshot files | composes `SnapshotReplace` by INSTANCE; an event is the history it ends, which stands for its hash |
| `ProofPathLedger` | the ingestion ledger and its retrying clients | `append` is split by its result: answered without a write, inserted, failed |
| `CheckpointChain` | checkpoint material, signing, both verifiers, key registry | heads and digests are whole histories; backups, restores and the anchor registry are the environment |
| `NoeticCrdt`, `NoeticState`, `NoeticConsensus` | clocks, registers and sets; one replica; one node's proposals | pure operators, one per method |
| `NoeticRuntime` | nodes with replica and engine behind the bridge's handlers | one action per handler, which holds the mutex throughout; a new proposal has an identifier nobody has used (a random UUID); the transport is external |
| `FieldCore` | the field's data: cells, index, link tracking, deltas, `apply_delta`, snapshots | a field is a record; operators from field to field, one per helper of the code |
| `ReflexRules` | reflex rules: counting, pruning, firing | operators over fields; a firing is one of the code's actions, the cells it wakes a choice |
| `FieldAgenda` | views and seeds | operators over fields |
| `ClusterField` | the live field and, beside it, what a restart at this moment would rebuild (`disk`) | one action per public call; every call applies its deltas to `disk` as `apply_delta` would |
| `ReflexFeedback`, `LifeLoop` | one iteration of `run_loop` and what the dream and reflex commands do to it | `Iterate` is the composition of the loop's sections in their order; time is counted in units of the smallest tick |
| `NetHub` | hub, host and sessions | one action per await of each of a session's tasks |
| `SdkTs`, `SdkRust`, `SdkClients` | the two clients and their connections; both side by side | one action per callback, or per branch of the connection task |
| `Bridge` | the C bridge's outbox | `liminal_push` is two actions, under the field's lock and then under the outbox's; the loops and other threads post in between |
| `LqlParser` | the parser | one step per token, with the indices the code moves by hand; tokens become known as the parser looks at them, so that a query is not extended once it is refused; the documented grammar is stated apart |
| `FieldJournal` | `DiskJournal`, segment collection, the host's restart and snapshot task | one action per file operation; a field is the sequence of its deltas, a segment the sequence of its records with marks where a failed append left a part of a frame |
| `Governance` | `append_governance_checkpoint` by concurrent callers | one action per step |
| `MC*` | instances for TLC | scenarios, offered inputs, payload lengths |
| `*_proof` | theorems | see below |

`MCStorage`, `MCClusterField` and `MCHost` each hold several scenarios: components
that share no state, or choices of calls, explored one at a time while the rest stays
as it begins.

A definition whose comment begins with "Mutant:" is a deliberate bug. It is used
only to show that the named property notices it.

Abstractions: a SHA-256 digest is the digested value, wrapped (taken to be
injective). Identifiers and payloads are model values. Input normalisation
(trimming, hex syntax) is one well-formedness predicate. Ed25519 is "a signature
by a registered key verifies". Field-wise string constants (schema, profile) that
the same build writes and checks are left out.

In the field a cell's energy is one of two levels and a link's score one of three,
cut where the code compares them; affinity, salience and bias only rank cells, so that
what they decide is a choice. Times are small integers, and every capacity is a
constant named after the code's.

## Runs

| Run | Checks | Bounds |
| --- | --- | --- |
| `wal` | the log implements `DurableLog`; an open store streams exactly what a restart would replay; reopening is refused only for a payload cut in the middle or for what was written behind a broken frame (the first two for stores of which no append has failed) | 4 appends of 1 to 3 cells, rotation at 7 cells (so that frames fit, just fit and overflow), 3 crashes; both kinds of crash |
| `wal_torn` | violated: what the durability matrix says of truncated records | as above |
| `ledger` | evidence is current; records cite the latest authorization; outcomes never roll back | three scenarios: 7 records of one transition, 5 of two transitions and two subjects with every possible link, 3 with every outcome |
| `storage` | the snapshot files implement `SnapshotCell`; acknowledged events are shown after every reopen, snapshots verify, reopening succeeds, the log only grows; ProofPath stores an operation once, answers truly and answers everyone | 3 snapshots and any number of replacements, failures and crashes; 3 events with any number of crashes, failures and snapshots; 3 clients, 2 operations, 2 kinds of evidence, 2 failures |
| `recovery_poisoned` | violated: a snapshot of a poisoned ledger can prevent reopening | 3 events |
| `checkpoints` | manifests are about one state; a verified chain holds what was anchored; anchors are one line; honest chains verify | 3 events, 1 restore, 2 storage roots, 2 keys, a clock of 3 values; two scenarios |
| `checkpoint_fork` | violated: what the checkpoint profile says of a re-issued checkpoint | 2 events |
| `noetic` | replicas agree after an exchange; a node's own update is shown; removals hold; the newest vote of each voter stands | 2 nodes, 2 proposals, 1 epoch, 1 published state that may arrive at any time and again, 2 ballots, wall clock 0 or 1 at any reading |
| `noetic_restart` | violated: what the protocol document says a noetic snapshot holds | 1 node |
| `field` | index and link tracking are exact; a restart would rebuild the recorded field; a tick records every cell; ids stay fresh; rules fire exactly when their window is full; views are on time; seeds settle | 5 calls of each of four scenarios (cells, dreams, reflexes, views and seeds), 3 cells, 2 tokens |
| `host` | overlapping slowdowns are undone and end; closed sessions are unlisted and commands answered; both SDKs send once and in order, the Rust one drains its queue; the outbox is exact; the parser accepts the documented queries with their values and reads each token once; the journal recovers the live field; receipts pin their envelopes | see `Host.cfg`: queues of 1 to 2 entries, 3 commands, 2 sockets, 5 posted events, 5 tokens after the command (7 after SELECT and SUBSCRIBE), 3 deltas in segments of 2, 2 snapshot tasks, 2 governance callers |
| `sdk_queue` | violated: commands issued while the TypeScript client is connecting are sent | as above, on a network where every attempt succeeds |

Why the bounds are enough: the log needs one rotation after a failed append and a
second crash during recovery's aftermath, which 4 appends and 3 crashes give. In the
ledger, seven records are the shortest sequence that runs authorization,
observation, integrity, audit, continuity snapshot, and then a re-authorization or a
late observation followed by new evidence. In recovery, three events separate "before
the snapshot", "after the snapshot" and "the ambiguous one". Among noetic nodes, two
concurrent updates with equal clocks are the smallest conflict, and one state that is
kept and delivered late the smallest overtaking; the bound on a clock's counter only
limits how often that state is delivered. In the field, five calls are a division, an
answer that links the cells, a dream or death, a snapshot or restart, and one call
after it; the bound on calls is what keeps the run small, so longer sequences are not
covered. A queue of the host is full, empty and in between within its bound, the hub's
event channel (2) overflows before a slow session's queue (1) is emptied, and a socket
can be superseded while another is superseded. Seven tokens hold every optional clause
of a view command, and five two clauses of every other. Three deltas are one in the
snapshot, one lost in a failed append and one behind it, or a rotation after each of two
records.

Deadlock is not checked: bounds on appends, events, calls or time end the behaviours.

Fairness. `storage`: a ProofPath client keeps retrying until it is answered (the retry
contract of the ingestion profile), a poisoned ledger is dropped and a closed one
reopened; failures and crashes are bounded, not fair. `host`: the life loop's task
iterates for ever (weak fairness of `Iterate`), and two dreams are at least
`min_idle_s` apart, as in its default configuration. The runtime runs a task that can
go on (weak fairness of the server's steps), the loop keeps publishing events and
metrics, and a queue's waiting senders are served in order, which tokio's channels
guarantee: hence strong fairness of the two pumps that wait for room in the same queue.
Clients are not fair: they may stop reading commands, or never close. The Rust client's
task runs when it can, and a server that is reachable again and again is reached
(strong fairness of a successful attempt and of the wake-up). `sdk_queue` needs only
that sockets open.

## Findings

1. `write_snapshot` does not check `poisoned`. After an append whose frame reached
   the file and whose sync failed, a snapshot pairs the offset after the frame with
   the state before it, and `open()` answers `ReplayProjectionMismatch` for ever.
   No caller in the repository does this (run `recovery_poisoned`).
2. The durability matrix says a truncated record with a complete length prefix is
   rejected; tail recovery truncates it unless the payload is cut in the middle (run
   `wal_torn`).
3. The checkpoint profile says a different checkpoint at the anchor's sequence is a
   fork; re-issued for the same head it is reported as not in the chain (run
   `checkpoint_fork`).
4. The protocol document says the noetic snapshot includes the CRDT state; it leaves
   out removals and the clock, so that a restored node shows a removed model again
   when an older state arrives (run `noetic_restart`). Nothing in the repository
   restores a replica yet.
5. The TypeScript client's `flushQueue` calls `connect()` whenever the current socket
   is not open, and `connect()` replaces a socket that is still connecting. A
   superseded socket that opens flushes in turn, so that the documented use, `connect()`
   followed at once by commands, can open sockets for ever without sending the
   commands (run `sdk_queue`).

Seen while modelling and stated where a property makes an exception for it: a dream
that begins inside a collective phase puts the phase's slowed tick back when it ends
(`SlowdownsUndone`); a session whose sender or pump ends before its loop makes the loop
await a finished task a second time, which panics and leaves the client listed
(`Leave` in `NetHub`); a session that ends with a receive error while its connection is
up stays listed until the client leaves, because the loop waits for its sender
(`ClosedSessionsUnlisted`); a failed send leaves the rest of the Rust client's queue waiting
for the next call (`RsQueueDrained`); a root added before the journal is attached is
not recorded (`unlogged` in `ClusterField`); `set_awakening_config` emits no delta, so
that a restart brings the configuration back as the last `apply_awakening_model` or
snapshot had it (`ReplayAgrees` leaves it out; the test in `store/journal_impl.rs` applies
a model after each change of it); a delta whose append failed is missing until the next
snapshot, deltas written behind a part of a frame are lost or make the log unreadable
until a snapshot is taken in a later segment or after a restart, and a crash in the middle
of the manifest's rewriting leaves a journal that does not load (`RecoversLiveField`); the
same appends are the ones `Wal` calls exposed (`OpenStoreReadable`, `DurableSpec`); the
parser accepts more than is documented, AND in SUBSCRIBE and clauses again and in any
order (`ParsedAsDocumented`).

## Proofs

| Module | About | Extends |
| --- | --- | --- |
| `DataInduction` | induction over numbers in set form: a set of naturals that holds 0 and every successor is all of them | |
| `TransitionLedger_proof` | the transition ledger | |
| `Storage_proof` | snapshot files, recovery of the ledger, ProofPath ingestion | `DataInduction` |
| `Histories_proof` | the field's journal, signed checkpoints | `DataInduction` |
| `NoeticCrdt_proof`, `Noetic_proof` | the noetic data types and one replica; the nodes together | the second the first |
| `Host_proof` | the bridge's outbox, governance, the two clients, the life loop | |

All theorems hold for every value of the constants, hence for any number of nodes,
callers, clients, records, failures and crashes.

`TransitionLedger_proof`: the type invariant, `LogChained` (the log is one hash
chain that ends at the head in memory), `OwnersMatchLog`, `RefsOwned` (owners and shown
references are those of the log), `EvidenceCurrent`, `CitesLatestAuthorization` and
`OutcomeNeverRollsBack`. `EvidenceCurrent` is not inductive alone: that an
accepted record's links are owned by its transition needs `OwnersMatchLog` and
`RefsOwned`, and these need that every reference is logged once. `IInv` is their
conjunction. Lemmas state field by field what one record does to the log and to a
projection, so that the step proof never expands the update.
`CitesLatestAuthorization` is proved from a second invariant that relates each
projection's authorization to its last place in the log.

`Storage_proof`, snapshots: `NoTornSnapshot`, `SuccessIsClean` and the refinement
`Spec => CellSpec`: every file step maps to a step of the atomic cell or to a
stutter. The invariant says, for each program counter, which of the three files are
absent, whole, old or new. Assumption: `None` is not a file.

`Storage_proof`, recovery: `AckedShown`, `SnapshotsVerify`, `ReopenSucceeds` and
`LogOnlyGrows`, under `~SnapshotWhilePoisoned`: without it `ReopenSucceeds` is false
(finding 1). The invariant `RInv` says that the log is one line (each event is the
history of the events before it), that every snapshot, in whichever file and even while
it is being written, equals what the log gave at its offset, and that an open ledger
which is not poisoned holds what its log gives. A crash anywhere leaves some of these
files, so the claim about all of them is what makes the next `open()` succeed.

`Storage_proof`, ProofPath: `OncePerOperation` and `AnswersHold`. The invariant `PInv`
says that the log replays without a refusal and that a ledger which is open and not
poisoned is in the state the replay gives; a failed append poisons the ledger, whether
its record is in the log or not, and that is why a retry goes through a replay. What a
replay yields (its keys are those of the log, each once, with the record that is logged)
is proved by induction over the log.

`Histories_proof`, journal: `RecoversLiveField`. The invariant `JournalInv` says that the
segments are numbered without gaps up to the writer's, with at most an empty one after it,
that at most one snapshotter writes, with the end of the log as its offset, that the
snapshot a manifest names is whole, that collection removes only segments before the
manifest's offset, that the writer's size is that of its segment as long as the segment
holds whole frames, and the property itself for any manifest that can be read. Streaming
the log from an offset is a recursive function over segments; lemmas by induction say what
an append, a rotation, a torn append and a collection do to the stream.

`Histories_proof`, checkpoints: `ManifestsConsistent`, `VerifiedHoldsAnchored`,
`HonestChainVerifies` and `AnchorsAreOneLine`.
`CInv` says of the chain and of the restored copy alike that every manifest attests a
prefix of its ledger at that prefix's position in the log, was signed in time and
follows the one before it, and that the anchored checkpoint is in the chain as long as
nothing was restored. Positions grow with the prefix by a lemma on segment number and
offset; assumption: a segment holds at least one event.

`NoeticCrdt_proof`: `Hlc::compare` is a strict total order for any credences,
and the merges of sets, and of registers whose clocks tell them apart, are
commutative, associative and idempotent. Then what one operation does to one replica: it
stays good (every stamp in it is at most its clock, every register in it was issued by
someone) and its clock moves on.

`Noetic_proof`: `NewestVoteStands` from the invariant that an engine keeps, for every
ballot it was given, a vote at least as new; and `MergeAgrees`, `RemovedStaysRemoved` and
`OwnUpdateShown` from `ConvergenceInv`: stamps of proposals are different (a node's clock
is past all of its own), every replica and every published state is good. These three
have the hypothesis `[]FarFromLimit`: no clock's 32-bit counter comes within three of its
limit. A counter starts again whenever the wall clock moves on, so the hypothesis says
that no node handles four thousand million events within a wall clock's millisecond or
while its wall clock stands still; at the limit a tick saturates and repeats stamps, and
a merge wraps, so the properties do fail there.

`Host_proof`: `ReceiptPinsEnvelope` (whoever is between append and receipt holds the
lock, and their event is the log's last; assumption: `NoBody` is not a caller),
`OutboxExact` (a post appends the next numbers, a pull moves everything or puts it back),
`SdkSentInOrder` (what was sent, the command in hand, what is being flushed and the queue
rise, each below the next, across reconnections and dropped entries) and
`SlowdownsUndone` (every pending slowdown has a base, and ticks stay positive under
regulator, hints and awakenings, which the code relies on: 0 stands for "nothing saved").

Only model-checked, and why:
- liveness (`EveryoneAnswered`, `SlowdownsEnd`, `ClosedSessionsUnlisted`,
  `CommandsAnswered`, `RsQueueDrained`), which is out of the prover's reach;
- the log's properties and its refinement of `DurableLog`, which rest on a recursive
  scan of frames in files of cells;
- the parser against the documented grammar (`ParsedAsDocumented`), a claim about every
  sequence of tokens of every command;
- the field's properties.

## Not modelled

Parts without a module, or modelled in part, are listed in `PROJECT.json` with the
reason: the signed handshake and the expiry of peers, access control and rate limits,
variants and pendulums, and the language helpers have no caller outside tests; the
WebAssembly bridge does not build against the current commands; codecs, sensors, the
storage adapter, summaries and scripts keep no state that a property could be about;
harmony, symmetry, salience and the regulator are floating-point measurements whose
decisions are choices of the models.

Within the modelled parts: directory entries survive a power loss (the repository
claims nothing about power loss); the writer lock is assumed to keep one writer;
disk-full and permission errors are the generic failing step; clocks are inputs. In `FieldJournal` a part of a frame is a mark, and whether it reads as
the end of its segment is a choice (which bytes do is `Wal`'s subject); a start that fails
is no step. The TypeScript client's limiter is modelled for positive rates (0 turns it
off). The verdict on a checkpoint's validity is translated, and `HonestChainVerifies` takes
it as its hypothesis: the boundaries of validity and revocation are not checked
independently. A restart's replay is one step. The life loop's partial
snapshots and dry replays, which write reports and leave the field alone, are left out.
The noetic counter (`PnCounter`), which no replica holds, and the digest of a summary,
which nothing compares, are left out; a clock's u32 counter wraps in the model but no
run reaches its limit. Generations of governance transitions saturate in the model as
in the code.
