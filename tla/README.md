# TLA+ verification of the Base node

The repository is the Base stack: an OP-Stack consensus node (`crates/consensus`), an
execution node on reth (`crates/execution`, `crates/builder`), a batcher, a proof system and
operator tools. This directory holds the specifications, the TLC models and the TLAPS proofs kept beside
it. They start with the part where an error is hardest to see in a test and costs most: the
three actors of the consensus node that decide what is unsafe, safe and finalized.

* `Engine.tla` — the engine task queue and its processor against an unreliable execution layer (EL)
* `Derivation.tla`, `Finalizer.tla`, `SafeDB.tla` — the derivation actor composed with the
  engine actor, the L1 watcher, the L2 finalizer and the safe head database
* `EngineProofs.tla`, `SafeDBProofs.tla` — machine-checked proofs
* `MCEngine.tla`, `MCDerivation.tla` and the `.cfg` files — the instances TLC checks
* `PROJECT.json` — definitions mapped to source lines, runs, mutants, findings, hazards, theorems

## 1. Inventory

### Consensus node

| part | state | operations that change it | what makes it hard | properties |
|---|---|---|---|---|
| engine task queue (`consensus/engine`) | four heads, `el_sync_finished`, task queue | insert, consolidate, build/seal, finalize, synchronize, reset | EL answers late, wrongly, partially or not at all; retries in place; resets from five places | heads served and ordered, finality irrevocable, drains end |
| engine processor and handlers (`service/actors/engine`) | `el_sync_complete`, last heads sent/checkpointed | bootstrap, drain, one handler per request | crash between two EL calls, bootstrap on the labels of an earlier process | the same, over restarts |
| sync start (`engine/sync`) | none (a search) | `find_starting_forkchoice` | L1 reorg during the walk, pruned bodies | result is a legal starting point |
| derivation actor (`service/actors/derivation`) | state machine, confirmed safe head, pending inclusion block | one handler per message; `attempt_derivation`; blocking reset request | messages of two senders interleave between the parts of one reset | accepts every legal order, one set of attributes in flight, ends on the engine's safe head |
| L2 finalizer | L1 number → L2 number, finalized L1 block | enqueue, finalize, clear | reorgs, resets, blocks queued before they are safe | only blocks with finalized inputs |
| safe head database (`consensus/safedb`) | persistent L1 number → L2 head | update, reset, lookup | failed writes, resets, restarts | entries never above the safe head, history kept |
| L1 watcher | last head and finalized block | two streams | L1 reorgs, skipped heads | derivation is woken |
| delegated derivation | remote heads | poll, inject | remote node ahead of or beside the local chain | as the engine |
| derivation pipeline (`consensus/derive`) | frames, channels, batches, origin | `step`, `signal` | holocene rules, resets at every stage | batches in order, none lost or repeated |
| sequencer, shadow reconciliation, L1 origin selection | build in flight, leadership, buffers | build, seal, commit, catch up | building on a head that moves | one block per height, no gap |
| checkpoint database, network, RPC, upgrade signal | persisted labels; peers; none; activation table | | | |

### Other parts

The batcher (`encoder`: open/ready channels, frame cursor, requeue; `core`: in-flight submissions,
throttle) and the transaction manager (`tx-manager`: nonce reservation and return, send loop, fee
bumps, receipts under reorgs) are the next most stateful. Then the flashblocks state of the
execution node, the flashblock builder, the prover service's leased job queue, the proposer, the
challenger and the TEE registrar. The rest (EVM and precompiles, trie, encodings, genesis, CLI and
terminal tools) is computation over data or I/O. `PROJECT.json` lists each with the reason it is
not modelled yet.

## 2. Plan

1. **Done.** Engine with an unreliable EL; its inductive invariant and first theorems.
2. **Done.** Derivation composed with engine, L1 watcher, finalizer, safe head database.
3. `SyncStart`: the two walks of `find_starting_forkchoice` against a reorging L1, and that their
   result satisfies `IsStart`/`StartFinalized`, the contract Engine uses.
4. `NonceManager` and `SendTx`: reservation, return, reset and generation of nonces, the send
   loop with publication, fee bump and receipt; proof that no nonce is handed out twice.
5. Batcher: `Encoder` (channel lifecycle), `Driver` (submissions, requeue), and their composition
   with an abstract spec "every L2 block is in a confirmed channel, in order".
6. Sequencer with Engine: build/seal/commit pipelining, leadership, shadow reconciliation.
7. Derivation pipeline stages; delegated derivation; checkpoint database; prover queue.
8. Abstract specification of the engine as Derivation uses it (safe head, label, finalized) as its
   own module, with Engine shown to implement it.
9. Proofs: `FinalityIrrevocable` for Engine (needs transitivity of `Ancestors`),
   `DerivationAfterSync` and `FinalizedInputsFinal` for Derivation, uniqueness of nonces.

## 3. Engine

### State and actions

`sync_state` is `EngineSyncState` (a function from the four head names), `tasks` the queue,
`el_sync_finished` and `el_sync_complete` the flags. `pc`, `job`, `upd` and `ret` say where the
single-threaded processor is: in its loop, or awaiting one EL call of one task. `el` is the
execution layer, modelled from how the code uses it: the blocks it has executed, its head and its
safe and finalized labels. `told` is the unsafe head the sequencer last read.

An EL call is one action, because the EL can progress between two calls of a task. Every call can be
answered in each way the code tells apart, or not at all; an unanswered call may or may not have
taken effect. Payload attributes are represented by the block they build. Errors keep
the severity of the code (Temporary: retried in place; Deferred; Reset; Flush; Critical), with the
consequence that severity has in `drain`. `Restart` zeroes the process and keeps the EL.

### Runs

The tree has two forks above genesis (`g-a1-a2-a3`, `g-b1-b2`), enough for a head on another fork
at the same height, a span batch of two blocks, and a deposits-only replacement (`b1` → `a1`).
`MaxTasks` bounds the queue at 1 or 2; a longer queue only delays tasks, which the free choice of
the time of each request already covers, except for the priority order, which the runs with two
tasks show (`EngineStale`, `EngineDelegated`, `EngineLiveness`); the theorems hold for every bound.

| run | shows | distinct states |
|---|---|---|
| `EngineValidator` | all six safety properties with a lossy, backfilling EL and restarts | 155,701 |
| `EngineSequencer` | heads served and equal, finality, with probes, builds on a stale head and own payloads | 277,159 |
| `EngineStale` | derivation from a left safe head, two queued tasks; invalid, malformed, off-schedule payloads | 74,617 |
| `EngineDelegated` | injected safe blocks on any fork | 388,141 |
| `EngineLiveness` | every drain ends when payloads execute and the EL eventually answers | 19,170 |
| `EngineInvalidPayload` | *violation*: an INVALID gossiped payload is retried forever | |

`SafeNotAheadOfUnsafe` is checked only where derivation works from the current safe head or is
delegated. It does not hold with stale derivation, nor for a sequencer: a restart right after `start_build`
moved the EL's head to an older parent leaves the EL's safe label above its head, and the bootstrap
probe adopts both. `FinalityIrrevocable` is not stated for delegated derivation, where finality is only
as consistent as the remote node whose blocks are injected.

`find_starting_forkchoice` is a contract: `IsStart` for the unsafe and safe head, `StartFinalized` for the
finalized one. The latter assumes that the EL serves the block it labels finalized. Two fallbacks of
`L2ForkchoiceState::current` are outside it: a finalized block whose body is pruned and not in the checkpoint database is
replaced by the earliest unpruned block (`sync/forkchoice.rs:85-94`), and a label query answered "block
not found", "Unknown block" or error 4444 counts as an unset label, hence genesis (98, 324-345), although the EL has a
label. `FinalityIrrevocable` is therefore a statement about nodes whose EL keeps its finalized block.

Fairness (`FairSpec`): weak fairness of the processor's own steps (a tokio task that is ready is
polled) and of the EL's backfill; strong fairness of each EL call's answered
outcome (an EL that is asked again and again eventually answers). Nothing is assumed about requests,
losses or restarts.

### Proofs

`EngineProofs` proves, for every block tree, role, mode and queue bound satisfying the three
named assumptions of Engine:

* `EngineInvariant` — `Spec => []EngineInv`
* `TypeCorrect`, `UnsafeIsServed`, `SafeHeadsAgree` — the invariants of the runs
* `ValidatorFinalizedNotAhead` — a validator never has the finalized head above the unsafe head
* `FinalizedOnlyRises` — `FinalizedMonotone`

The invariants are not inductive alone: what a returning forkchoice update does to the heads depends on the
update issued earlier. `EngineInv` therefore adds `Control` (which job and update can be pending
at which `pc`), `Pending` (an update sets both safe heads to the same block or neither; a
finalized head is set alone and in range, unless by a reset or probe) and `HeadServed` (the EL's head is
a block it executed). Most actions end a job; the lemmas about `Settled` prove them at once, and one lemma per action
covers the rest.

## 4. Derivation

### State and actions

Three actors and two FIFO channels. The engine actor is abstracted to what derivation sees:
its safe and finalized head, the EL's two labels, the task queue (`tasks`), the last safe head sent. A handler is one
action, except where it waits: the engine sends the messages of one request one at a time (`out`), so
the L1 watcher's can fall between them, and the reset request blocks derivation until `reply`.
A drain executes tasks by priority (`Execute`), pops each that succeeds (`TaskDone`) and at its end sends
the safe head if it changed (`EndDrain`). Only a request starts a drain (`drain` is `"idle"` until then), so a task
that a drain leaves behind waits for one: of derivation itself, or of another actor (`OtherRequest`).
Attributes have five outcomes: they become safe (`ConfirmAttributes`); their forkchoice update is answered Syncing and the task
is popped with the safe head where it was and nothing sent (`LoseAttributes`); it is answered Syncing in
`reconcile_to_safe_head` and the task is deferred (`DeferAttributes`); the payload is invalid (`FlushAttributes`: refused
at the build, with no new safe head, or replaced by its deposits-only form); or the engine resets
and clears the queue (`ResetOnTask`). `Starve` is a task that is retried in place forever. Every VALID forkchoice update, also
that of a finalization, sets both labels of the EL; `ELSyncing` and `Starving` say whether the Syncing answers and
the endless retries are part of an instance.

`transition` is the state machine, split into the updates that start derivation (`Resumes`), those
that are accepted without effect (`Ignored`), and the rest.

The pipeline is a promise: the batch of L2 block `b` is read at L1 block `From[b]`, when that is
canonical and not before the pipeline's origin. It can always yield, and it can ask for a reset at any time (always
when its origin is orphaned). `SafeDB` and `Finalizer` are operators from a stored map to the next,
called where the actor calls them; a write of the database may fail (`DbFails`).

Abstractions:
* The channels are unbounded (1024 in the code).
* The unsafe head is left out. Where an outcome depends on it (whether a Syncing answer hides the safe head, whether a
  task consolidates or reconciles), both outcomes are possible.
* A reset ends at the EL's safe label, or at a block below it with a canonical epoch. If its forkchoice is answered
  Syncing its heads are taken over and the labels stay; that the filter may reject them is Engine's subject.
* Critical pipeline errors are a restart.
* The L1 hash in a database entry, the verifier's confirmation delay and the batch contents are left out.

### Runs

L1 is `x0-x1-x2` (`-x3`) with a fork `x1-y2`; L2 is `g-a1-a2`, with `b2` on the L1 fork and `v2` the
deposits-only form of `a2`. One block per epoch boundary is enough for an entry to be re-keyed, for a
reset below a confirmed head, and for finalization to lag by one. `DerivationLiveness`, where TLC has to search
for cycles, uses `x0-x1`, at which both batches are read. `MaxResets`, `MaxRestarts` and
`MaxReorgs` bound the resets beyond the initial one, restarts and L1 reorgs. Deadlock is not
checked: the L1 chain is finite and a failed node stays down when restarts are used up.

| run | shows | distinct states |
|---|---|---|
| `DerivationResets` | types, derivation after sync, finalized inputs, agreement on the safe head under a reset, a restart and an invalid batch | 1,145,783 |
| `DerivationReorgs` | one L1 reorg, Syncing answers and failing writes: derivation after sync, agreement on the safe head | 1,155,019 |
| `DerivationLiveness` | no confirmation is awaited forever but in the three named cases; finalized inputs under Syncing answers; one reset | 165,147 |
| `DerivationSignalRace` | *violation*: an L1 head between a reset signal and a safe head stops the node | |
| `DerivationFinalizeUnsafe` | *violation*: finalization of a block that is not safe, a Critical error | |
| `DerivationDBReset` | *violation*: a pipeline reset truncates the database to the head before it | |

The main positive results: derivation sends nothing before EL sync ends, so no reset request is
refused; what is finalized was derived from finalized L1 data as long as L1 does not reorg under the
finalizer; and whenever the channels are empty, derivation works from exactly the engine's safe head,
although safe heads are sent only when they differ from the last one sent, and although attributes may be deferred or lost.

The violations take about 15 steps and one reset. The first two are interleavings of the L1 watcher with
the parts of a reset; the third is the argument of the database reset. `PROJECT.json` quotes the
line each contradicts.

The same model shows four more hazards that are described in `PROJECT.json` and not stated as runs: two
sets of attributes in flight after a reset signal; a database entry keyed by the inclusion block
of other attributes; the first reset of a process wiping the database; and, when an
orphaned L1 height is finalized while derivation lags behind the reorg, finalization by number of a block
whose batch was orphaned.

Fairness: weak fairness of the engine actor and of the derivation actor (a tokio task that is ready is polled). It
covers executing the tasks of a drain, taking the next request of derivation, and sending. Nothing is assumed about L1, its
watcher, the end of EL sync, requests of other actors, resets or restarts, or about which answer the EL gives.

Under that fairness a confirmation does not always arrive, and `ConfirmationArrives` names the cases (`Stalled`):
a task left in the queue, deferred or behind a flushed one, since derivation sends nothing while it waits and no one else need;
the engine inside a task whose errors stay temporary (the starvation of `EngineInvalidPayload`); and attributes popped after a
Syncing answer that hid their safe head, after which only a reset or a restart moves derivation on. The property shows
that there is no fourth: attributes dropped by a reset of any origin, flushed with or without a new safe head, or found to be the safe head already always end the wait. Stalled states exist only where `ELSyncing` or
`Starving` is TRUE: an EL that stays synced and tasks that end give the confirmation without exception.

### Proofs

`SafeDBProofs` is about the operators and so about every content of the database, ordered or not:
`ResetTruncatesFromEpoch` (no entry from the reset head's epoch on is above it), `ResetKeepsBeforeEpoch`
(earlier entries unchanged), `AnswerAfterReset` (what the RPC reads), `ResetIsDB`. They show that
`safe_head_reset` does its part, and that the violation of `ResetTruncates` comes from the head it is
given. They assume only that numbers are naturals and every block has an epoch.

## 5. Mutants

Each property of a passing run has a mutant: a definition replaced by a plausible bug (for example the full
update applied on Syncing, a finalize task that skips its range check, L1 data starting derivation before
sync, a safe head sent only when it advances, a finalization range one block too far). TLC finds the property violated
under the run's own configuration. The variants are the definitions commented `Variant:`.

## 6. What is only model-checked, and what is not modelled

Only model-checked: all liveness (outside TLAPS's reach: fairness and ENABLED), `FinalityIrrevocable`,
`SafeNotAheadOfUnsafe`, and every property of `Derivation`. Proofs of the last two groups are planned.

Known hazards without a property: `Engine::reset` looping on the same state; the mutual wait of two full channels; the
confirmation delay skipping heads; and a Critical error while building the deposits-only replacement, which is the
documented policy. Each is in the hazards of `PROJECT.json`.

Not modelled: the parts with status `not_modelled` in `PROJECT.json`, with the reason; authoritative (shadow) inserts,
payload versions and metrics of the engine; the sequencer's modes other than Regular.
