------------------------------- MODULE Engine -------------------------------
(***************************************************************************)
(* The engine task queue of the consensus node (crate consensus/engine) and *)
(* the loop of the engine processor that drives it (crate consensus/service,*)
(* actors/engine).                                                          *)
(*                                                                          *)
(* The engine owns four L2 heads (sync_state) and one flag                  *)
(* (el_sync_finished).  It changes them by running tasks against the        *)
(* execution layer (EL): Insert, Consolidate, Finalize and, inside these,   *)
(* build_and_seal and Synchronize.  Every task is a chain of EL calls; here *)
(* each call is one step, so that the EL can make progress of its own       *)
(* between two calls of a task, and every call can be answered in every way *)
(* the code distinguishes, an error whose request took effect included.     *)
(*                                                                          *)
(* Payload attributes are represented by the block they build: its parent   *)
(* is the attributes' parent.  An L2BlockInfo is a block, or NoBlock for    *)
(* L2BlockInfo::default().                                                  *)
(***************************************************************************)
EXTENDS Naturals, Sequences, FiniteSets

CONSTANTS
  Block,           \* the L2 blocks of every chain the node may meet
  Genesis,         \* the rollup genesis block
  NoBlock,         \* L2BlockInfo::default()
  Number,          \* block -> its number
  Parent,          \* block -> its parent
  Ancestors,       \* block -> the blocks of its chain, itself included
  DepositsOnly,    \* block -> the block its attributes build when stripped to deposits
  Invalid,         \* blocks the EL rejects on execution
  Malformed,       \* blocks that cannot be converted to an L2BlockInfo
  BadSchedule,     \* blocks whose timestamp is off the BaseTime schedule
  Holocene,        \* whether Holocene is active
  Role,            \* "validator" or "sequencer": which request handler runs
  Delegated,       \* whether derivation is delegated (BlockInfo inputs)
  StaleDerivation, \* whether derivation may work from a safe head the engine has left
  MaxTasks         \* bound on the task queue

ASSUME BlockAssumption ==
  /\ Genesis \in Block /\ NoBlock \notin Block
  /\ Number \in [Block -> Nat] /\ Parent \in [Block -> Block]
  /\ Ancestors \in [Block -> SUBSET Block] /\ DepositsOnly \in [Block -> Block]
  /\ Invalid \subseteq Block /\ Malformed \subseteq Block /\ BadSchedule \subseteq Block
  /\ Number[Genesis] = 0 /\ Ancestors[Genesis] = {Genesis}

ASSUME ShapeAssumption ==
  \A b \in Block \ {Genesis} : /\ Number[b] = Number[Parent[b]] + 1
                               /\ Ancestors[b] = {b} \cup Ancestors[Parent[b]]
                               /\ Parent[DepositsOnly[b]] = Parent[b]
                               /\ DepositsOnly[DepositsOnly[b]] = DepositsOnly[b]

ASSUME FlagAssumption ==
  /\ Holocene \in BOOLEAN /\ Delegated \in BOOLEAN /\ StaleDerivation \in BOOLEAN
  /\ Role \in {"validator", "sequencer"} /\ MaxTasks \in Nat \ {0}

VARIABLES
  sync_state,        \* EngineState::sync_state, the four heads
  el_sync_finished,  \* EngineState::el_sync_finished
  el_sync_complete,  \* EngineProcessor::el_sync_complete
  tasks,             \* Engine::tasks, in the order they were enqueued
  pc,                \* where the processor is: its loop, or the EL call it awaits
  job,               \* the task or request being executed
  upd,               \* the EngineSyncStateUpdate the pending Synchronize will apply
  ret,               \* where a reset returns to
  told,              \* the unsafe head the sequencer last read from unsafe_head_tx
  el                 \* the execution layer

vars == <<sync_state, el_sync_finished, el_sync_complete, tasks, pc, job, upd, ret, told, el>>

-----------------------------------------------------------------------------
(* Blocks and heads *)

Info == Block \cup {NoBlock}
HeadName == {"unsafe_head", "local_safe_head", "safe_head", "finalized_head"}
SyncState == [HeadName -> Info]

\* L2BlockInfo::default() has number 0.
Height(b) == IF b = NoBlock THEN 0 ELSE Number[b]

DefaultSyncState == [h \in HeadName |-> NoBlock]

\* An EngineSyncStateUpdate is the function of the heads it sets.
IsUpdate(u) ==
  /\ DOMAIN u \subseteq HeadName /\ u = [h \in DOMAIN u |-> u[h]]
  /\ \A h \in DOMAIN u : u[h] \in Info
NoUpdate == [h \in {} |-> NoBlock]

Updated(state, update) ==
  [h \in HeadName |-> IF h \in DOMAIN update THEN update[h] ELSE state[h]]

Unsafe == sync_state["unsafe_head"]
Safe == sync_state["safe_head"]
Finalized == sync_state["finalized_head"]

\* Variant: consolidation forgets the local-safe head.
SafeHeadOnlyUpdate(b) == [h \in {"safe_head"} |-> b]

SafeUpdate(b) == [h \in {"local_safe_head", "safe_head"} |-> b]
SafeAndUnsafeUpdate(b) == [h \in {"unsafe_head", "local_safe_head", "safe_head"} |-> b]
UnsafeUpdate(b) == [h \in {"unsafe_head"} |-> b]
FinalizedUpdate(b) == [h \in {"finalized_head"} |-> b]

-----------------------------------------------------------------------------
(* Tasks and jobs *)

(* A queued task.  "Attributes" and "BlockInfo" are the two inputs of a      *)
(* ConsolidateTask.  A FinalizeTask carries only the number of its block.    *)
TaskKind == {"Insert", "Attributes", "BlockInfo", "Finalize"}
Task == [kind : TaskKind, block : Block, result : BOOLEAN, last : BOOLEAN]

InsertTask(b, result) == [kind |-> "Insert", block |-> b, result |-> result, last |-> FALSE]
AttributesTask(b, last) == [kind |-> "Attributes", block |-> b, result |-> FALSE, last |-> last]
BlockInfoTask(b) == [kind |-> "BlockInfo", block |-> b, result |-> FALSE, last |-> FALSE]
FinalizeTask(b) == [kind |-> "Finalize", block |-> b, result |-> FALSE, last |-> FALSE]

(* The job in progress: a task, or a request served without a task.  via is  *)
(* the function that issued the pending Synchronize; fallback is true while  *)
(* the deposits-only replacement of an invalid payload is built and sealed.  *)
JobKind == TaskKind \cup {"None", "Build", "Probe", "Reset"}
Via == {"none", "insert", "consolidate", "reconcile", "finalize", "probe", "reset"}
Job == [kind : JobKind, block : Info, result : BOOLEAN, last : BOOLEAN,
        via : Via, fallback : BOOLEAN]

JobOf(kind, b) == [kind |-> kind, block |-> b, result |-> FALSE, last |-> FALSE,
                   via |-> "none", fallback |-> FALSE]
NoJob == JobOf("None", NoBlock)
JobOfTask(t) == [JobOf(t.kind, t.block) EXCEPT !.result = t.result, !.last = t.last]

Priority(t) == CASE t.kind = "Insert" -> 3
                 [] t.kind \in {"Attributes", "BlockInfo"} -> 2
                 [] t.kind = "Finalize" -> 1

(* The BinaryHeap's maximum: highest priority, then lowest sequence number. *)
IsNextTask(i) ==
  \A j \in 1..Len(tasks) : \/ Priority(tasks[j]) < Priority(tasks[i])
                           \/ Priority(tasks[j]) = Priority(tasks[i]) /\ j >= i

WithoutTask(i) == SubSeq(tasks, 1, i - 1) \o SubSeq(tasks, i + 1, Len(tasks))

-----------------------------------------------------------------------------
(* The execution layer, external: the answers the code distinguishes.        *)
(* known: blocks it has executed; head, safe, finalized: its labels (NoBlock *)
(* when unset); target: the head it is backfilling towards.                  *)

ELState == [known : SUBSET Block, head : Block, safe : Info, finalized : Info, target : Info]

Tainted(b) == Ancestors[b] \cap Invalid # {}

OnChain(b, head) == b = NoBlock \/ b \in Ancestors[head]

\* The canonical block of number n, as a set of at most one block.
BlocksAt(n) == {b \in Ancestors[el.head] : Number[b] = n}

(* engine_forkchoiceUpdated(h, s, f).  A zero safe or finalized hash leaves   *)
(* the label alone; a zero head, or labels off the head's chain, is an        *)
(* invalid forkchoice state; an unknown head starts a backfill.               *)
FcuValid(h, s, f) ==
  /\ h \in el.known /\ el.target = NoBlock /\ OnChain(s, h) /\ OnChain(f, h)
  /\ el' = [el EXCEPT !.head = h,
                      !.safe = IF s = NoBlock THEN @ ELSE s,
                      !.finalized = IF f = NoBlock THEN @ ELSE f]

FcuSyncing(h) ==
  /\ h \in Block /\ (h \notin el.known \/ el.target # NoBlock)
  /\ el' = [el EXCEPT !.target = IF h \in el.known THEN @ ELSE h]

FcuInvalid(h) == h \in Block /\ Tainted(h) /\ UNCHANGED el

FcuBadState(h, s, f) ==
  /\ h = NoBlock \/ (h \in el.known /\ ~(OnChain(s, h) /\ OnChain(f, h)))
  /\ UNCHANGED el

\* A transport error: the request was lost, or only its answer.
FcuError(h, s, f) == UNCHANGED el \/ FcuValid(h, s, f) \/ FcuSyncing(h)

PayloadValid(b) ==
  /\ Parent[b] \in el.known /\ el.target = NoBlock /\ b \notin Invalid
  /\ el' = [el EXCEPT !.known = @ \cup {b}]

PayloadSyncing(b) == (Parent[b] \notin el.known \/ el.target # NoBlock) /\ UNCHANGED el

PayloadInvalid(b) == Tainted(b) /\ UNCHANGED el

PayloadError(b) == UNCHANGED el \/ PayloadValid(b)

(* The backfill ends: the target and its ancestors are executed and the       *)
(* target becomes the head, or it turns out to be invalid.                    *)
ElBackfill ==
  /\ el.target # NoBlock
  /\ IF Tainted(el.target)
       THEN el' = [el EXCEPT !.target = NoBlock]
       ELSE el' = [el EXCEPT !.known = @ \cup Ancestors[el.target],
                             !.head = el.target, !.target = NoBlock]
  /\ UNCHANGED <<sync_state, el_sync_finished, el_sync_complete, tasks, pc, job, upd, ret, told>>

-----------------------------------------------------------------------------
(* How a job ends.  These leave el, sync_state and the flags to the caller.   *)

Pc == {"boot", "recv", "drain", "execute", "post", "reset", "newPayload", "fetchUnsafe",
       "fetchDerived", "fetchFinal", "build", "getPayload", "sync", "dead"}
Ret == {"post", "recv", "drain", "request"}

Idle(where) == pc' = where /\ job' = NoJob /\ upd' = NoUpdate

PopTask == \E i \in 1..Len(tasks) : IsNextTask(i) /\ tasks' = WithoutTask(i)

\* Variant: drain forgets to pop the task it executed.
CompleteWithoutPop == Idle("drain") /\ UNCHANGED <<tasks, ret>>

CompleteTask == PopTask /\ Idle("drain") /\ UNCHANGED ret

Die == Idle("dead") /\ UNCHANGED <<tasks, ret>>

\* Engine::reset_with_checkpoint_reader clears the queue before anything else.
EnterReset(return) ==
  /\ pc' = "reset" /\ job' = JobOf("Reset", NoBlock) /\ upd' = NoUpdate
  /\ tasks' = <<>> /\ ret' = return

\* Variant: the failed reset returns to the place it was entered from.
ResetFailsToCaller == Idle(ret) /\ UNCHANGED <<tasks, ret>>

\* The reset failed: its request is answered with the error, or the actor stops.
ResetFails == Idle(IF ret = "request" THEN "drain" ELSE "dead") /\ UNCHANGED <<tasks, ret>>

(* What drain and the processor do with a failed queue task.  A temporary     *)
(* error is retried in place by EngineTask::execute; a deferred one stays     *)
(* queued until the next drain; a flushed one is popped.                      *)
FailTask(severity) ==
  \/ severity = "Temporary" /\ Idle("drain") /\ UNCHANGED <<tasks, ret>>
  \/ severity = "Deferred" /\ Idle("post") /\ UNCHANGED <<tasks, ret>>
  \/ severity = "Flush" /\ PopTask /\ Idle("post") /\ UNCHANGED ret
  \/ severity = "Reset" /\ EnterReset("post")
  \/ severity = "Critical" /\ Die

\* handle_engine_task_error_severity for a failed BuildRequest or GetPayloadRequest.
FailRequest(severity) ==
  \/ severity \in {"Temporary", "Deferred", "Flush"} /\ Idle("drain") /\ UNCHANGED <<tasks, ret>>
  \/ severity = "Reset" /\ EnterReset("drain")
  \/ severity = "Critical" /\ Die

(* A failed step of the current job.  An insert with a result channel reports *)
(* the error there and succeeds; every failure of the deposits-only fallback  *)
(* is critical.                                                               *)
Fail(severity) ==
  \/ job.fallback /\ Die
  \/ ~job.fallback /\ job.kind = "Insert" /\ job.result /\ CompleteTask
  \/ job.kind = "Build" /\ FailRequest(severity)
  \/ job.kind = "Probe" /\ Idle("drain") /\ UNCHANGED <<tasks, ret>>
  \/ job.kind = "Reset" /\ severity = "Critical" /\ ResetFails
  \/ job.kind = "Reset" /\ severity # "Critical" /\ EnterReset(ret)
  \/ job.kind \in TaskKind /\ ~job.fallback /\ ~job.result /\ FailTask(severity)

CallSync(via, b, update) ==
  /\ pc' = "sync" /\ upd' = update
  /\ job' = [job EXCEPT !.via = via, !.block = b]
  /\ UNCHANGED <<tasks, ret>>

Call(where) == pc' = where /\ UNCHANGED <<tasks, job, upd, ret>>

-----------------------------------------------------------------------------
(* SynchronizeTask::execute *)

NewSyncState == Updated(sync_state, upd)

NoForkchoiceNeeded ==
  job.kind # "Probe" /\ sync_state # DefaultSyncState /\ sync_state = NewSyncState

FinalizedAheadOfUnsafe ==
  Height(NewSyncState["unsafe_head"]) < Height(NewSyncState["finalized_head"])

\* Variant: the safe heads survive a Syncing answer without comparison to the unsafe head.
UnfilteredSyncUpdate ==
  [h \in {h \in DOMAIN upd \ {"unsafe_head"} : el_sync_finished} |-> upd[h]]

\* Variant: the whole update is applied on a Syncing answer.
FullSyncUpdate == upd

\* The part of the update that survives a Syncing answer.
safe_only_sync_update ==
  LET NotAhead(b) == Height(b) < Height(Unsafe) \/ b = Unsafe
      kept == {h \in DOMAIN upd \ {"unsafe_head"} : el_sync_finished /\ NotAhead(upd[h])}
  IN [h \in kept |-> upd[h]]

\* What the caller of the Synchronize does once it returned Ok with the heads s.
AfterSync(s) ==
  \/ /\ job.kind = "Insert"
     /\ IF job.result /\ s["unsafe_head"] # job.block THEN Fail("Temporary") ELSE CompleteTask
  \/ /\ job.via = "reconcile"
     /\ IF \E h \in HeadName \ {"finalized_head"} : s[h] # job.block
          THEN Fail("Deferred") ELSE CompleteTask
  \/ /\ job.kind = "Attributes" /\ job.via = "insert"
     /\ IF job.fallback THEN FailTask("Flush") ELSE CompleteTask
  \/ job.via \in {"consolidate", "finalize"} /\ CompleteTask
  \/ job.kind = "Probe" /\ Idle("drain") /\ UNCHANGED <<tasks, ret>>
  \/ /\ job.kind = "Reset" /\ UNCHANGED <<tasks, ret>>
     /\ Idle(IF ret = "request" THEN "drain" ELSE ret)

\* seed_state: the bootstrap keeps the probed heads when the EL did not confirm them.
Seeded(s, finished) ==
  IF job.kind = "Probe" /\ ~finished THEN Updated(s, upd) ELSE s

SyncReturns(s, finished) ==
  /\ AfterSync(s)
  /\ sync_state' = Seeded(s, finished) /\ el_sync_finished' = finished
  /\ UNCHANGED <<el_sync_complete, told>>

SyncFails(severity) ==
  /\ Fail(severity)
  /\ sync_state' = Seeded(sync_state, FALSE)
  /\ UNCHANGED <<el_sync_finished, el_sync_complete, told>>

SyncSkip ==
  /\ pc = "sync" /\ NoForkchoiceNeeded
  /\ SyncReturns(sync_state, el_sync_finished) /\ UNCHANGED el

SyncRefuse ==
  /\ pc = "sync" /\ ~NoForkchoiceNeeded /\ FinalizedAheadOfUnsafe
  /\ SyncFails("Critical") /\ UNCHANGED el

SyncForkchoice ==
  LET h == NewSyncState["unsafe_head"]
      s == NewSyncState["safe_head"]
      f == NewSyncState["finalized_head"]
  IN /\ pc = "sync" /\ ~NoForkchoiceNeeded /\ ~FinalizedAheadOfUnsafe
     /\ \/ FcuValid(h, s, f) /\ SyncReturns(NewSyncState, TRUE)
        \/ FcuSyncing(h) /\ SyncReturns(Updated(sync_state, safe_only_sync_update), el_sync_finished)
        \/ (FcuInvalid(h) \/ FcuBadState(h, s, f)) /\ SyncFails("Reset")

SyncUnanswered ==
  /\ pc = "sync" /\ ~NoForkchoiceNeeded /\ ~FinalizedAheadOfUnsafe
  /\ FcuError(NewSyncState["unsafe_head"], NewSyncState["safe_head"], NewSyncState["finalized_head"])
  /\ SyncFails("Temporary")

-----------------------------------------------------------------------------
(* InsertTask *)

is_unsafe_payload_applicable(b) ==
  /\ Number[b] > Height(Unsafe)
  /\ ~(Number[b] = Height(Unsafe) + 1 /\ Parent[b] # Unsafe)

\* The heads an inserted payload moves: a sealed derived payload is also safe.
InsertUpdate(b) == IF job.kind = "Insert" THEN UnsafeUpdate(b) ELSE SafeAndUnsafeUpdate(b)

InsertExecute ==
  LET b == job.block
  IN /\ pc = "execute" /\ job.kind = "Insert"
     /\ CASE b \in Malformed -> Fail("Critical")
          [] b \notin Malformed /\ ~is_unsafe_payload_applicable(b) -> CompleteTask
          [] b \in BadSchedule \ Malformed /\ is_unsafe_payload_applicable(b) -> Fail("Critical")
          [] OTHER -> Call("newPayload")
     /\ UNCHANGED <<sync_state, el_sync_finished, el_sync_complete, told, el>>

(* SealTask::insert_payload: an invalid derived payload is replaced by its     *)
(* deposits-only version once Holocene is active.                              *)
insert_payload_invalid(b) ==
  IF job.kind = "Attributes" /\ DepositsOnly[b] = b THEN Die
  ELSE IF job.kind = "Attributes" /\ Holocene
    THEN /\ pc' = "build" /\ UNCHANGED <<tasks, upd, ret>>
         /\ job' = [job EXCEPT !.fallback = TRUE, !.block = DepositsOnly[b]]
    ELSE Fail("Temporary")

NewPayload ==
  LET b == job.block
  IN /\ pc = "newPayload"
     /\ \/ (PayloadValid(b) \/ PayloadSyncing(b)) /\ CallSync("insert", b, InsertUpdate(b))
        \/ PayloadInvalid(b) /\ insert_payload_invalid(b)
     /\ UNCHANGED <<sync_state, el_sync_finished, el_sync_complete, told>>

NewPayloadUnanswered ==
  /\ pc = "newPayload" /\ PayloadError(job.block) /\ Fail("Temporary")
  /\ UNCHANGED <<sync_state, el_sync_finished, el_sync_complete, told>>

-----------------------------------------------------------------------------
(* build_and_seal: start_build, then fetch_payload and insert_payload *)

start_build ==
  LET h == Parent[job.block]
  IN /\ pc = "build"
     /\ IF Height(Unsafe) < Height(Finalized)
          THEN Fail("Critical") /\ UNCHANGED el
          ELSE \/ /\ FcuValid(h, Safe, Finalized)
                  /\ IF job.kind = "Build" THEN Idle("drain") /\ UNCHANGED <<tasks, ret>>
                                           ELSE Call("getPayload")
               \/ FcuInvalid(h) /\ Fail("Flush")
               \/ FcuBadState(h, Safe, Finalized) /\ Fail("Reset")
               \/ FcuSyncing(h) /\ Fail("Temporary")
     /\ UNCHANGED <<sync_state, el_sync_finished, el_sync_complete, told>>

BuildUnanswered ==
  /\ pc = "build" /\ Height(Unsafe) >= Height(Finalized)
  /\ FcuError(Parent[job.block], Safe, Finalized) /\ Fail("Temporary")
  /\ UNCHANGED <<sync_state, el_sync_finished, el_sync_complete, told>>

seal_payload ==
  LET b == job.block
  IN /\ pc = "getPayload"
     /\ IF b \in Malformed \cup BadSchedule THEN Fail("Critical") ELSE Call("newPayload")
     /\ UNCHANGED <<sync_state, el_sync_finished, el_sync_complete, told, el>>

-----------------------------------------------------------------------------
(* ConsolidateTask *)

IsConsolidate == job.kind \in {"Attributes", "BlockInfo"}

reconcile_unsafe_to_safe ==
  IF job.kind = "Attributes" THEN Call("build")
  ELSE CallSync("reconcile", job.block, SafeAndUnsafeUpdate(job.block))

ConsolidateExecute ==
  LET safe_head_number == IF job.kind = "Attributes" THEN Height(Safe) ELSE Number[job.block]
  IN /\ pc = "execute" /\ IsConsolidate
     /\ IF safe_head_number < Height(Unsafe) THEN Call("fetchUnsafe")
        ELSE IF job.kind = "Attributes" THEN Call("fetchDerived")
        ELSE reconcile_unsafe_to_safe
     /\ UNCHANGED <<sync_state, el_sync_finished, el_sync_complete, told, el>>

\* The block the EL has at the derived height is the derived one, and converts.
Matches(b) == b = job.block /\ b \notin Malformed

reconcile_existing_derived_block ==
  /\ pc = "fetchDerived"
  /\ IF \E b \in BlocksAt(Number[job.block]) : Matches(b)
       THEN CallSync("reconcile", job.block, SafeAndUnsafeUpdate(job.block))
       ELSE reconcile_unsafe_to_safe
  /\ UNCHANGED <<sync_state, el_sync_finished, el_sync_complete, told, el>>

\* Variant: the unconfirmed update pulls the unsafe head down to the new safe head.
ConsolidateBoth ==
  /\ pc = "fetchUnsafe"
  /\ \/ BlocksAt(Number[job.block]) = {} /\ Fail("Reset") /\ UNCHANGED sync_state
     \/ \E b \in BlocksAt(Number[job.block]) :
          \/ ~Matches(b) /\ reconcile_unsafe_to_safe /\ UNCHANGED sync_state
          \/ /\ Matches(b) /\ CompleteTask
             /\ sync_state' = Updated(sync_state, SafeAndUnsafeUpdate(b))
  /\ UNCHANGED <<el_sync_finished, el_sync_complete, told, el>>

(* A block in the middle of a span batch, and every injected safe block, moves *)
(* the safe head without telling the EL.                                       *)
consolidate ==
  /\ pc = "fetchUnsafe"
  /\ \/ BlocksAt(Number[job.block]) = {} /\ Fail("Reset") /\ UNCHANGED sync_state
     \/ \E b \in BlocksAt(Number[job.block]) :
          \/ ~Matches(b) /\ reconcile_unsafe_to_safe /\ UNCHANGED sync_state
          \/ /\ Matches(b) /\ ~job.last
             /\ CompleteTask /\ sync_state' = Updated(sync_state, SafeUpdate(b))
          \/ /\ Matches(b) /\ job.last
             /\ CallSync("consolidate", b, SafeUpdate(b)) /\ UNCHANGED sync_state
  /\ UNCHANGED <<el_sync_finished, el_sync_complete, told, el>>

-----------------------------------------------------------------------------
(* FinalizeTask *)

\* Variant: no monotonicity guard.
FinalizeAnySafe ==
  /\ pc = "execute" /\ job.kind = "Finalize"
  /\ IF Height(Safe) < Number[job.block] THEN Fail("Critical") ELSE Call("fetchFinal")
  /\ UNCHANGED <<sync_state, el_sync_finished, el_sync_complete, told, el>>

FinalizeExecute ==
  LET n == Number[job.block]
  IN /\ pc = "execute" /\ job.kind = "Finalize"
     /\ IF n < Height(Finalized) THEN CompleteTask
        ELSE IF Height(Safe) < n THEN Fail("Critical")
        ELSE Call("fetchFinal")
     /\ UNCHANGED <<sync_state, el_sync_finished, el_sync_complete, told, el>>

FinalizeFetch ==
  LET found == BlocksAt(Number[job.block]) \ Malformed
  IN /\ pc = "fetchFinal"
     /\ \/ found = {} /\ Fail("Critical")
        \/ \E b \in found : CallSync("finalize", b, FinalizedUpdate(b))
     /\ UNCHANGED <<sync_state, el_sync_finished, el_sync_complete, told, el>>

-----------------------------------------------------------------------------
\* A read of a block or of a payload fails in transport.
FetchUnanswered ==
  /\ pc \in {"getPayload", "fetchUnsafe", "fetchDerived", "fetchFinal"} /\ Fail("Temporary")
  /\ UNCHANGED <<sync_state, el_sync_finished, el_sync_complete, told, el>>

-----------------------------------------------------------------------------
(* Engine::drain, Engine::reset_with_checkpoint_reader, EngineProcessor::drain *)

PeekTask ==
  /\ pc = "drain" /\ tasks # <<>>
  /\ \E i \in 1..Len(tasks) : IsNextTask(i) /\ job' = JobOfTask(tasks[i])
  /\ pc' = "execute"
  /\ UNCHANGED <<sync_state, el_sync_finished, el_sync_complete, tasks, upd, ret, told, el>>

Drained ==
  /\ pc = "drain" /\ tasks = <<>> /\ pc' = "post"
  /\ UNCHANGED <<sync_state, el_sync_finished, el_sync_complete, tasks, job, upd, ret, told, el>>

(* find_starting_forkchoice, by its contract (module SyncStart): an unsafe     *)
(* head on the EL's chain, at or above the finalized label, and a safe head    *)
(* below it that does not pass the finalized block if that is on the way.      *)
IsStart(u, s, f) ==
  /\ u = f \/ Number[f] < Number[u]
  /\ s \in Ancestors[u]
  /\ f \in Ancestors[u] => f \in Ancestors[s]

\* Variant: the reset starts from genesis instead of the EL's finalized label.
StartAtGenesis == Genesis

(* L2ForkchoiceState::current for an EL that serves the block it labels: a      *)
(* pruned or unserved finalized block, whose fallbacks are the earliest         *)
(* unpruned block and genesis, is outside the contract.                         *)
StartFinalized == IF el.finalized = NoBlock THEN Genesis ELSE el.finalized

StartUpdate(u, s, f) ==
  [h \in HeadName |-> CASE h = "unsafe_head" -> u [] h = "finalized_head" -> f [] OTHER -> s]

find_starting_forkchoice ==
  /\ pc = "reset"
  /\ \/ ResetFails
     \/ \E u, s \in Ancestors[el.head] :
          /\ IsStart(u, s, StartFinalized)
          /\ CallSync("reset", NoBlock, StartUpdate(u, s, StartFinalized))
  /\ UNCHANGED <<sync_state, el_sync_finished, el_sync_complete, told, el>>

\* The end of EngineProcessor::drain: the first confirmed forkchoice ends EL sync.
ProcessorDrained ==
  /\ pc = "post"
  /\ IF ~el_sync_complete /\ el_sync_finished
       THEN /\ el_sync_complete' = TRUE
            /\ IF Finalized = NoBlock THEN EnterReset("recv")
                                      ELSE Idle("recv") /\ UNCHANGED <<tasks, ret>>
       ELSE UNCHANGED el_sync_complete /\ Idle("recv") /\ UNCHANGED <<tasks, ret>>
  /\ UNCHANGED <<sync_state, el_sync_finished, told, el>>

-----------------------------------------------------------------------------
(* Requests *)

Enqueue(t) ==
  /\ pc = "recv" /\ Len(tasks) < MaxTasks
  /\ tasks' = Append(tasks, t) /\ pc' = "drain"
  /\ UNCHANGED <<sync_state, el_sync_finished, el_sync_complete, job, upd, ret, told, el>>

(* ProcessUnsafeL2BlockRequest: gossip has validated encoding and schedule.    *)
(* An active sequencer only takes payloads ahead of its own unsafe head.       *)
ProcessUnsafeL2Block(b) ==
  /\ b \notin Malformed \cup BadSchedule
  /\ Role = "sequencer" => Number[b] > Height(Unsafe)
  /\ Enqueue(InsertTask(b, FALSE))

\* ProcessAdminUnsafeL2BlockRequest drops off-schedule payloads, not malformed ones.
ProcessAdminUnsafeL2Block(b) == b \notin BadSchedule \ Malformed /\ Enqueue(InsertTask(b, FALSE))

\* ProcessLocalUnsafeL2BlockRequest: the sequencer's own sealed payload.
ProcessLocalUnsafeL2Block(b) ==
  b # Genesis /\ Parent[b] = told /\ b \notin Malformed /\ Enqueue(InsertTask(b, TRUE))

(* ProcessSafeL2SignalRequest.  Derivation starts once EL sync is complete and *)
(* sends one signal at a time, on the safe head it was last told of.           *)
ProcessSafeL2Signal(b, last) ==
  /\ el_sync_complete /\ b # Genesis
  /\ IF Delegated
       THEN ~last /\ b \notin Malformed /\ ~Tainted(b) /\ Enqueue(BlockInfoTask(b))
       ELSE /\ StaleDerivation \/ (Parent[b] = Safe /\ \A i \in 1..Len(tasks) : tasks[i].kind # "Attributes")
            /\ Enqueue(AttributesTask(b, last))

ProcessFinalizedL2BlockNumber(b) ==
  /\ el_sync_complete
  /\ StaleDerivation \/ Number[b] <= Height(Safe)
  /\ Enqueue(FinalizeTask(b))

\* The sequencer reads the head published before each wait for a request.
ReadUnsafeHead ==
  /\ pc = "recv" /\ Role = "sequencer" /\ told' = Unsafe
  /\ UNCHANGED <<sync_state, el_sync_finished, el_sync_complete, tasks, pc, job, upd, ret, el>>

(* BuildRequest: the sequencer prepared the attributes on the head it was told *)
(* of, which the engine may have left since.                                   *)
BuildRequest(b) ==
  /\ pc = "recv" /\ b # Genesis /\ Parent[b] = told
  /\ pc' = "build" /\ job' = JobOf("Build", b)
  /\ UNCHANGED <<sync_state, el_sync_finished, el_sync_complete, tasks, upd, ret, told, el>>

\* GetPayloadRequest: a payload built on a head the engine has left resets the engine.
GetPayloadRequest(b) ==
  /\ pc = "recv" /\ b # Genesis /\ Parent[b] = told
  /\ IF Unsafe # told THEN EnterReset("drain") ELSE Idle("drain") /\ UNCHANGED <<tasks, ret>>
  /\ UNCHANGED <<sync_state, el_sync_finished, el_sync_complete, told, el>>

\* ResetRequest: refused while the EL is still syncing.
ResetRequest ==
  /\ pc = "recv"
  /\ IF el_sync_finished THEN EnterReset("request") ELSE Idle("drain") /\ UNCHANGED <<tasks, ret>>
  /\ UNCHANGED <<sync_state, el_sync_finished, el_sync_complete, told, el>>

-----------------------------------------------------------------------------
(* Bootstrap and restart *)

bootstrap_validator ==
  /\ pc = "boot" /\ Role = "validator"
  /\ sync_state' \in {sync_state, Updated(sync_state, UnsafeUpdate(el.head))}
  /\ Idle("drain")
  /\ UNCHANGED <<el_sync_finished, el_sync_complete, tasks, ret, told, el>>

Probe(update) ==
  /\ pc' = "sync" /\ upd' = update
  /\ job' = [JobOf("Probe", NoBlock) EXCEPT !.via = "probe"]
  /\ UNCHANGED <<sync_state, el_sync_finished, el_sync_complete, tasks, ret, told, el>>

(* A follower at genesis runs the same loop as an active sequencer; beyond     *)
(* genesis it first catches up (not modelled here).                            *)
bootstrap_conductor_follower ==
  /\ pc = "boot" /\ Role = "sequencer" /\ el.head = Genesis
  /\ Probe(UnsafeUpdate(Genesis))

bootstrap_active_sequencer ==
  /\ pc = "boot" /\ Role = "sequencer"
  /\ IF el.head = Genesis
       THEN /\ EnterReset("request")
            /\ UNCHANGED <<sync_state, el_sync_finished, el_sync_complete, told, el>>
       ELSE \E s \in {el.safe, NoBlock}, f \in {el.finalized, NoBlock} :
              Probe(StartUpdate(el.head, s, f))

\* The process crashes or is stopped, and is started again: the EL keeps its state.
Restart ==
  /\ pc # "boot"
  /\ sync_state' = DefaultSyncState /\ el_sync_finished' = FALSE /\ el_sync_complete' = FALSE
  /\ tasks' = <<>> /\ ret' = "recv" /\ told' = NoBlock /\ Idle("boot")
  /\ UNCHANGED el

-----------------------------------------------------------------------------
Init ==
  /\ sync_state = DefaultSyncState /\ el_sync_finished = FALSE /\ el_sync_complete = FALSE
  /\ tasks = <<>> /\ pc = "boot" /\ job = NoJob /\ upd = NoUpdate /\ ret = "recv"
  /\ told = NoBlock
  /\ el = [known |-> {Genesis}, head |-> Genesis, safe |-> NoBlock,
           finalized |-> NoBlock, target |-> NoBlock]

Request ==
  \/ \E b \in Block : \/ ProcessUnsafeL2Block(b)
                      \/ ProcessAdminUnsafeL2Block(b)
                      \/ ProcessLocalUnsafeL2Block(b)
                      \/ \E last \in BOOLEAN : ProcessSafeL2Signal(b, last)
                      \/ ProcessFinalizedL2BlockNumber(b)
                      \/ BuildRequest(b)
                      \/ GetPayloadRequest(b)
  \/ ReadUnsafeHead \/ ResetRequest

Boot == bootstrap_validator \/ bootstrap_conductor_follower \/ bootstrap_active_sequencer

Work ==
  \/ PeekTask \/ Drained \/ ProcessorDrained \/ find_starting_forkchoice
  \/ InsertExecute \/ ConsolidateExecute \/ FinalizeExecute \/ SyncSkip \/ SyncRefuse

Answered ==
  \/ NewPayload \/ SyncForkchoice \/ start_build \/ seal_payload
  \/ consolidate \/ reconcile_existing_derived_block \/ FinalizeFetch

Unanswered == NewPayloadUnanswered \/ SyncUnanswered \/ BuildUnanswered \/ FetchUnanswered

Next == Boot \/ Request \/ Work \/ Answered \/ Unanswered \/ ElBackfill \/ Restart

Spec == Init /\ [][Next]_vars

(* The processor keeps running, a backfill ends, and no kind of EL call fails  *)
(* in transport forever while it is retried.                                   *)
Fairness ==
  /\ WF_vars(Boot) /\ WF_vars(Work) /\ WF_vars(Answered) /\ WF_vars(ElBackfill)
  /\ SF_vars(NewPayload) /\ SF_vars(SyncForkchoice) /\ SF_vars(start_build)
  /\ SF_vars(seal_payload) /\ SF_vars(consolidate)
  /\ SF_vars(reconcile_existing_derived_block) /\ SF_vars(FinalizeFetch)

FairSpec == Spec /\ Fairness

-----------------------------------------------------------------------------
(* Every variable has the type the code gives it. *)
TypeOK ==
  /\ sync_state \in SyncState
  /\ el_sync_finished \in BOOLEAN /\ el_sync_complete \in BOOLEAN
  /\ tasks \in Seq(Task) /\ pc \in Pc /\ job \in Job /\ IsUpdate(upd) /\ ret \in Ret
  /\ told \in Info /\ el \in ELState

(* The finalized head is never above the unsafe head: whatever the EL answers, *)
(* no update that Synchronize applies, in full or only its safe part, leaves   *)
(* the engine in the state its own FinalizedAheadOfUnsafe check calls fatal.   *)
FinalizedNotAheadOfUnsafe == Height(Finalized) <= Height(Unsafe)

(* The unsafe head is a block the EL has executed: a payload answered Syncing, *)
(* or a forkchoice whose answer was lost, never becomes the unsafe head.       *)
UnsafeServed == Unsafe \in el.known \cup {NoBlock}

(* Without interop the two safe heads are one: every path that moves one of    *)
(* them (consolidation, sealing, reconciling, reset, probe) moves the other,   *)
(* also when only a part of its update survives a Syncing answer.              *)
LocalSafeIsSafe == sync_state["local_safe_head"] = Safe

(* While derivation works from the current safe head, the safe head is at most *)
(* at the unsafe head's height, through consolidation against the EL's chain,  *)
(* deposits-only fallback, reset and restart.                                  *)
SafeNotAheadOfUnsafe == Height(Safe) <= Height(Unsafe)

FinalizedStep ==
  job.kind \notin {"Reset", "Probe"} /\ pc' # "boot" /\ Finalized' # Finalized
    => Height(Finalized) <= Height(Finalized') /\ Height(Finalized') <= Height(Safe')

(* A running engine moves its finalized head only up, and never past its safe  *)
(* head; only a reset (or a new process) takes it from elsewhere.              *)
FinalizedMonotone == [][FinalizedStep]_vars

(* Finality is irrevocable: the EL's finalized label, which is what survives a *)
(* crash, only ever moves to a descendant, through lost answers, resets,       *)
(* restarts with zeroed labels, backfills to another fork and stale finalize   *)
(* requests.                                                                   *)
FinalityIrrevocable ==
  [][el.finalized # NoBlock
       => el'.finalized # NoBlock /\ el.finalized \in Ancestors[el'.finalized]]_vars

(* Every drain ends: the processor gets back to its request channel (or dies,  *)
(* or is restarted) instead of retrying one task in place forever.             *)
QueueDrains == pc = "drain" ~> pc \in {"recv", "dead", "boot"}
=============================================================================
