---------------------------- MODULE EngineProofs ----------------------------
(***************************************************************************)
(* Proofs about Engine for every block tree, every role and every bound on  *)
(* the task queue.                                                          *)
(*                                                                          *)
(* The heads are changed only by a Synchronize that returns, by an          *)
(* unconfirmed consolidation and by the bootstrap.  What these may do       *)
(* depends on the pending update, so the inductive invariant says what      *)
(* every pending update looks like (Pending) and where the processor can be *)
(* with it (Control).  Settled is the state every finished or failed job    *)
(* leaves behind: most actions preserve the invariant because they end in it.*)
(***************************************************************************)
EXTENDS Engine, TLAPS, SequenceTheorems

(* Where the processor can be with which job and update. *)
Control ==
  /\ pc = "boot" => sync_state = DefaultSyncState
  /\ pc # "sync" => upd = NoUpdate
  /\ job.kind \in TaskKind \cup {"Build"} => job.block \in Block
  /\ pc \in {"execute", "newPayload", "fetchUnsafe", "fetchDerived", "fetchFinal", "build", "getPayload"}
       => job.kind \in TaskKind \cup {"Build"}
  /\ pc = "reset" => job.kind = "Reset"
  /\ Role = "validator" => job.kind # "Probe"

(* A block the pending FinalizeTask may finalize. *)
InFinalizeRange(b) ==
  b \in Block /\ Height(Finalized) <= Number[b] /\ Number[b] <= Height(Safe)

(* What a pending update can set: both safe heads or none; unless it is a      *)
(* reset or a probe, either heads below the finalized one or that one alone.   *)
Pending ==
  /\ "safe_head" \in DOMAIN upd <=> "local_safe_head" \in DOMAIN upd
  /\ "safe_head" \in DOMAIN upd => upd["local_safe_head"] = upd["safe_head"]
  /\ job.kind = "Probe" /\ "unsafe_head" \in DOMAIN upd => upd["unsafe_head"] \in el.known
  /\ pc = "fetchFinal" => \A b \in Block : Number[b] = Number[job.block] => InFinalizeRange(b)
  /\ job.kind \notin {"Reset", "Probe"} /\ "finalized_head" \in DOMAIN upd
       => DOMAIN upd = {"finalized_head"} /\ InFinalizeRange(upd["finalized_head"])

(* The EL has executed its own head. *)
HeadServed == el.head \in el.known

(* A validator never meets the state its FinalizedAheadOfUnsafe check refuses. *)
ValidatorFinalized == Role = "validator" => FinalizedNotAheadOfUnsafe

EngineInv ==
  /\ TypeOK /\ UnsafeServed /\ LocalSafeIsSafe
  /\ Control /\ Pending /\ HeadServed /\ ValidatorFinalized

-----------------------------------------------------------------------------
(* The state a finished or failed job leaves behind. *)
Settled ==
  /\ pc' \in {"drain", "post", "recv", "dead", "reset"}
  /\ job' = IF pc' = "reset" THEN JobOf("Reset", NoBlock) ELSE NoJob
  /\ upd' = NoUpdate
  /\ tasks' \in Seq(Task) /\ ret' \in Ret

(* The EL only learns blocks and keeps its head among them. *)
ElKept == el' \in ELState /\ el.known \subseteq el'.known /\ el'.head \in el'.known

(* The next task popped from the queue leaves a queue of tasks. *)
LEMMA PopTaskType ==
  ASSUME tasks \in Seq(Task), PopTask
  PROVE  tasks' \in Seq(Task)
<1>1. PICK i \in 1..Len(tasks) : tasks' = SubSeq(tasks, 1, i - 1) \o SubSeq(tasks, i + 1, Len(tasks))
  BY DEF PopTask, WithoutTask
<1>2. SubSeq(tasks, 1, i - 1) \in Seq(Task)
  BY SubSeqProperties
<1>3. SubSeq(tasks, i + 1, Len(tasks)) \in Seq(Task)
  BY SubSeqProperties
<1> QED
  BY <1>1, <1>2, <1>3, ConcatProperties

(* CompleteTask, a reset and a failed task settle. *)
LEMMA CompleteSettles ==
  ASSUME TypeOK, CompleteTask
  PROVE  Settled
BY PopTaskType DEF TypeOK, CompleteTask, Idle, Settled

LEMMA ResetSettles ==
  ASSUME TypeOK, NEW r \in Ret, EnterReset(r)
  PROVE  Settled
BY EmptySeq DEF TypeOK, EnterReset, Settled

LEMMA FailTaskSettles ==
  ASSUME TypeOK, NEW severity, FailTask(severity)
  PROVE  Settled
BY PopTaskType, ResetSettles DEF TypeOK, FailTask, Idle, Die, Settled, Ret

LEMMA FailSettles ==
  ASSUME TypeOK, NEW severity, Fail(severity)
  PROVE  Settled
BY CompleteSettles, ResetSettles, FailTaskSettles
   DEF TypeOK, Fail, FailRequest, ResetFails, Idle, Die, Settled, Ret

LEMMA AfterSyncSettles ==
  ASSUME TypeOK, NEW s, AfterSync(s)
  PROVE  Settled
BY CompleteSettles, FailSettles, FailTaskSettles DEF TypeOK, AfterSync, Idle, Settled, Ret

(* A settled job leaves no pending update, so the invariant is that of the heads. *)
LEMMA SettledInv ==
  ASSUME EngineInv, Settled, ElKept,
         sync_state' \in SyncState, el_sync_finished' \in BOOLEAN,
         el_sync_complete' \in BOOLEAN, told' \in Info,
         UnsafeServed', LocalSafeIsSafe', ValidatorFinalized'
  PROVE  EngineInv'
<1>1. TypeOK'
  <2>1. pc' \in Pc /\ tasks' \in Seq(Task) /\ ret' \in Ret /\ el' \in ELState
    BY DEF Settled, ElKept, Pc
  <2>2. job' \in Job
    <3>1. JobOf("None", NoBlock) \in Job /\ JobOf("Reset", NoBlock) \in Job
      BY DEF JobOf, Job, JobKind, Via, Info
    <3> QED
      BY <3>1 DEF Settled, NoJob
  <2>3. IsUpdate(upd)'
    BY DEF Settled, NoUpdate, IsUpdate, HeadName
  <2> QED
    BY <2>1, <2>2, <2>3 DEF TypeOK
<1>2. Control'
  BY DEF Settled, Control, NoJob, JobOf, TaskKind
<1>3. Pending'
  BY DEF Settled, Pending, NoJob, JobOf, NoUpdate
<1> QED
  BY <1>1, <1>2, <1>3 DEF EngineInv, ElKept, HeadServed

(* The same for a job that ends without touching the heads or the flags. *)
LEMMA QuietSettledInv ==
  ASSUME EngineInv, Settled, ElKept,
         UNCHANGED <<sync_state, el_sync_finished, told>>, el_sync_complete' \in BOOLEAN
  PROVE  EngineInv'
BY SettledInv DEF EngineInv, TypeOK, ElKept, UnsafeServed, LocalSafeIsSafe,
   ValidatorFinalized, FinalizedNotAheadOfUnsafe, Unsafe, Safe, Finalized

(* What the EL does on each of its calls. *)
LEMMA FcuKept ==
  ASSUME EngineInv, NEW h \in Info, NEW s \in Info, NEW f \in Info,
         FcuValid(h, s, f) \/ FcuSyncing(h) \/ FcuInvalid(h) \/ FcuBadState(h, s, f)
           \/ FcuError(h, s, f)
  PROVE  ElKept
BY DEF EngineInv, TypeOK, ELState, HeadServed, FcuValid, FcuSyncing, FcuInvalid, FcuBadState,
   FcuError, ElKept, Info

LEMMA PayloadKept ==
  ASSUME EngineInv, NEW b \in Block,
         PayloadValid(b) \/ PayloadSyncing(b) \/ PayloadInvalid(b) \/ PayloadError(b)
  PROVE  ElKept
BY DEF EngineInv, TypeOK, ELState, HeadServed, PayloadValid, PayloadSyncing, PayloadInvalid,
   PayloadError, ElKept

LEMMA SameElKept ==
  ASSUME EngineInv, UNCHANGED el
  PROVE  ElKept
BY DEF EngineInv, TypeOK, HeadServed, ElKept

(* A call that issues a Synchronize keeps the heads, so the invariant is that  *)
(* of the update it passes on.                                                 *)
LEMMA CallSyncInv ==
  ASSUME EngineInv, ElKept, UNCHANGED <<sync_state, el_sync_finished, el_sync_complete, told>>,
         NEW via \in Via, NEW b \in Info, NEW u, CallSync(via, b, u),
         IsUpdate(u), job.kind # "Probe", job.kind \in TaskKind \cup {"Build"} => b \in Block,
         "safe_head" \in DOMAIN u <=> "local_safe_head" \in DOMAIN u,
         "safe_head" \in DOMAIN u => u["local_safe_head"] = u["safe_head"],
         "finalized_head" \in DOMAIN u => \/ job.kind = "Reset"
                                          \/ /\ DOMAIN u = {"finalized_head"}
                                             /\ InFinalizeRange(u["finalized_head"])
  PROVE  EngineInv'
<1> USE DEF CallSync
<1>1. job' \in Job /\ job'.kind = job.kind /\ job'.block = b
  BY DEF EngineInv, TypeOK, Job
<1>2. TypeOK'
  BY <1>1 DEF EngineInv, TypeOK, ElKept, Pc
<1>3. Control'
  BY <1>1 DEF EngineInv, Control
<1>4. Pending'
  BY <1>1 DEF Pending, InFinalizeRange, Finalized, Safe
<1>5. UnsafeServed' /\ LocalSafeIsSafe' /\ ValidatorFinalized' /\ HeadServed'
  BY DEF EngineInv, UnsafeServed, LocalSafeIsSafe, ValidatorFinalized, FinalizedNotAheadOfUnsafe,
     HeadServed, ElKept, Unsafe, Safe, Finalized
<1> QED
  BY <1>2, <1>3, <1>4, <1>5 DEF EngineInv

(* A call to the EL that is only awaited: the job and the heads are kept. *)
LEMMA CallInv ==
  ASSUME EngineInv, ElKept,
         UNCHANGED <<sync_state, el_sync_finished, el_sync_complete, told, tasks, upd, ret>>,
         pc \notin {"boot", "sync"},
         job' \in Job, job'.kind \in TaskKind \cup {"Build"}, job'.block \in Block,
         pc' \in {"execute", "newPayload", "fetchUnsafe", "fetchDerived", "fetchFinal", "build",
                  "getPayload"},
         pc' = "fetchFinal" =>
           \A b \in Block : Number[b] = Number[job'.block] => InFinalizeRange(b)
  PROVE  EngineInv'
<1>1. TypeOK'
  BY DEF EngineInv, TypeOK, ElKept, Pc
<1>2. Control'
  BY DEF EngineInv, Control, TaskKind
<1>3. Pending'
  <2>1. upd' = NoUpdate /\ DOMAIN upd' = {}
    BY DEF EngineInv, Control, NoUpdate
  <2> QED
    BY <2>1 DEF Pending, InFinalizeRange, Finalized, Safe
<1>4. UnsafeServed' /\ LocalSafeIsSafe' /\ ValidatorFinalized' /\ HeadServed'
  BY DEF EngineInv, UnsafeServed, LocalSafeIsSafe, ValidatorFinalized, FinalizedNotAheadOfUnsafe,
     HeadServed, ElKept, Unsafe, Safe, Finalized
<1> QED
  BY <1>1, <1>2, <1>3, <1>4 DEF EngineInv

-----------------------------------------------------------------------------
(* Synchronize *)

(* An update with equal safe heads keeps the two safe heads equal. *)
LEMMA UpdatedHeads ==
  ASSUME NEW s \in SyncState, NEW u, IsUpdate(u), s["local_safe_head"] = s["safe_head"],
         "safe_head" \in DOMAIN u <=> "local_safe_head" \in DOMAIN u,
         "safe_head" \in DOMAIN u => u["local_safe_head"] = u["safe_head"]
  PROVE  /\ Updated(s, u) \in SyncState
         /\ Updated(s, u)["local_safe_head"] = Updated(s, u)["safe_head"]
         /\ \A h \in HeadName : Updated(s, u)[h] = IF h \in DOMAIN u THEN u[h] ELSE s[h]
BY DEF SyncState, IsUpdate, Updated, HeadName, Info

(* The heads a Synchronize leaves: s, or for a probe the seeded s. *)
LEMMA SyncedInv ==
  ASSUME EngineInv, Settled, ElKept, UNCHANGED <<el_sync_complete, told>>,
         el_sync_finished' \in BOOLEAN,
         NEW s \in SyncState, NEW finished, sync_state' = Seeded(s, finished),
         s["local_safe_head"] = s["safe_head"], s["unsafe_head"] \in el'.known \cup {NoBlock},
         Role = "validator" => Height(s["finalized_head"]) <= Height(s["unsafe_head"])
  PROVE  EngineInv'
<1>1. CASE job.kind = "Probe" /\ ~finished
  <2>1. sync_state' = Updated(s, upd)
    BY <1>1 DEF Seeded
  <2>2. /\ sync_state' \in SyncState
        /\ sync_state'["local_safe_head"] = sync_state'["safe_head"]
        /\ \A h \in HeadName : sync_state'[h] = IF h \in DOMAIN upd THEN upd[h] ELSE s[h]
    BY <2>1, UpdatedHeads DEF EngineInv, TypeOK, Pending
  <2>3. sync_state'["unsafe_head"] \in el'.known \cup {NoBlock}
    BY <1>1, <2>2 DEF EngineInv, Pending, ElKept, HeadName
  <2>4. Role # "validator"
    BY <1>1 DEF EngineInv, Control
  <2> QED
    BY <2>2, <2>3, <2>4, SettledInv
    DEF EngineInv, TypeOK, UnsafeServed, LocalSafeIsSafe, ValidatorFinalized, Unsafe, Safe
<1>2. CASE ~(job.kind = "Probe" /\ ~finished)
  BY <1>2, SettledInv
  DEF Seeded, EngineInv, TypeOK, UnsafeServed, LocalSafeIsSafe, ValidatorFinalized,
      FinalizedNotAheadOfUnsafe, Unsafe, Safe, Finalized
<1> QED
  BY <1>1, <1>2

(* A Synchronize that fails leaves the heads, or seeds them for a probe. *)
LEMMA SyncFailsInv ==
  ASSUME EngineInv, ElKept, NEW severity, SyncFails(severity)
  PROVE  EngineInv'
<1>1. Settled
  BY FailSettles DEF EngineInv, SyncFails
<1> QED
  BY <1>1, SyncedInv
  DEF SyncFails, EngineInv, TypeOK, ElKept, UnsafeServed, LocalSafeIsSafe, ValidatorFinalized,
      FinalizedNotAheadOfUnsafe, Unsafe, Safe, Finalized

(* The four outcomes of SynchronizeTask::execute. *)
LEMMA SyncSkipInv ==
  ASSUME EngineInv, SyncSkip
  PROVE  EngineInv'
<1>1. Settled /\ ElKept
  BY AfterSyncSettles, SameElKept DEF EngineInv, SyncSkip, SyncReturns
<1> QED
  BY <1>1, SyncedInv
  DEF SyncSkip, SyncReturns, EngineInv, TypeOK, ElKept, UnsafeServed, LocalSafeIsSafe,
      ValidatorFinalized, FinalizedNotAheadOfUnsafe, Unsafe, Safe, Finalized

LEMMA SyncRefuseInv ==
  ASSUME EngineInv, SyncRefuse
  PROVE  EngineInv'
BY SyncFailsInv, SameElKept DEF SyncRefuse

LEMMA SyncForkchoiceInv ==
  ASSUME EngineInv, SyncForkchoice
  PROVE  EngineInv'
<1> DEFINE h == NewSyncState["unsafe_head"]
           s == NewSyncState["safe_head"]
           f == NewSyncState["finalized_head"]
<1>1. /\ NewSyncState \in SyncState
      /\ NewSyncState["local_safe_head"] = s
      /\ h \in Info /\ s \in Info /\ f \in Info
  BY UpdatedHeads DEF NewSyncState, EngineInv, TypeOK, Pending, LocalSafeIsSafe, Safe, SyncState, HeadName
<1>2. CASE FcuValid(h, s, f) /\ SyncReturns(NewSyncState, TRUE)
  <2>1. Settled /\ ElKept /\ h \in el'.known
    BY <1>1, <1>2, AfterSyncSettles, FcuKept DEF EngineInv, SyncReturns, FcuValid, ElKept
  <2>2. Height(f) <= Height(h)
    BY <1>1, BlockAssumption DEF SyncForkchoice, FinalizedAheadOfUnsafe, Height, Info
  <2> QED
    BY <1>1, <1>2, <2>1, <2>2, SyncedInv DEF SyncReturns
<1>3. CASE FcuSyncing(h) /\ SyncReturns(Updated(sync_state, safe_only_sync_update), el_sync_finished)
  <2> DEFINE t == Updated(sync_state, safe_only_sync_update)
  <2>1. Settled /\ ElKept
    BY <1>1, <1>3, AfterSyncSettles, FcuKept DEF EngineInv, SyncReturns
  <2>2. /\ IsUpdate(safe_only_sync_update)
        /\ DOMAIN safe_only_sync_update \subseteq DOMAIN upd \ {"unsafe_head"}
        /\ \A x \in DOMAIN safe_only_sync_update :
             /\ safe_only_sync_update[x] = upd[x]
             /\ Height(upd[x]) < Height(Unsafe) \/ upd[x] = Unsafe
    BY DEF EngineInv, TypeOK, IsUpdate, safe_only_sync_update
  <2>3. "safe_head" \in DOMAIN safe_only_sync_update
          <=> "local_safe_head" \in DOMAIN safe_only_sync_update
    BY DEF EngineInv, Pending, safe_only_sync_update
  <2>4. /\ t \in SyncState /\ t["local_safe_head"] = t["safe_head"]
        /\ \A x \in HeadName : t[x] = IF x \in DOMAIN safe_only_sync_update
                                        THEN upd[x] ELSE sync_state[x]
    BY <2>2, <2>3, UpdatedHeads DEF EngineInv, TypeOK, LocalSafeIsSafe, Safe, Pending
  <2>5. t["unsafe_head"] = Unsafe
    BY <2>2, <2>4 DEF Unsafe, HeadName
  <2>6. Role = "validator" => Height(t["finalized_head"]) <= Height(t["unsafe_head"])
    <3>1. Height(Unsafe) \in Nat /\ Height(t["finalized_head"]) \in Nat
      BY <2>4, BlockAssumption DEF EngineInv, TypeOK, SyncState, HeadName, Unsafe, Height, Info
    <3> QED
      BY <2>2, <2>4, <2>5, <3>1
      DEF EngineInv, ValidatorFinalized, FinalizedNotAheadOfUnsafe, Finalized, HeadName
  <2> QED
    BY <1>3, <2>1, <2>4, <2>5, <2>6, SyncedInv
    DEF SyncReturns, EngineInv, TypeOK, UnsafeServed, ElKept
<1>4. CASE (FcuInvalid(h) \/ FcuBadState(h, s, f)) /\ SyncFails("Reset")
  BY <1>1, <1>4, FcuKept, SyncFailsInv
<1> QED
  BY <1>2, <1>3, <1>4 DEF SyncForkchoice

LEMMA SyncUnansweredInv ==
  ASSUME EngineInv, SyncUnanswered
  PROVE  EngineInv'
<1>1. \A x \in HeadName : NewSyncState[x] \in Info
  BY UpdatedHeads DEF NewSyncState, EngineInv, TypeOK, Pending, LocalSafeIsSafe, Safe, SyncState
<1> QED
  BY <1>1, FcuKept, SyncFailsInv DEF SyncUnanswered, HeadName

-----------------------------------------------------------------------------
(* Inserting, building and sealing *)

(* A failed step of a job, with the heads untouched. *)
LEMMA FailInv ==
  ASSUME EngineInv, ElKept, NEW severity, Fail(severity),
         UNCHANGED <<sync_state, el_sync_finished, el_sync_complete, told>>
  PROVE  EngineInv'
BY FailSettles, QuietSettledInv DEF EngineInv, TypeOK

(* A finished task, with the heads untouched. *)
LEMMA CompleteInv ==
  ASSUME EngineInv, ElKept, CompleteTask,
         UNCHANGED <<sync_state, el_sync_finished, el_sync_complete, told>>
  PROVE  EngineInv'
BY CompleteSettles, QuietSettledInv DEF EngineInv, TypeOK

(* The next EL call of the same job. *)
LEMMA CallWhereInv ==
  ASSUME EngineInv, ElKept, NEW where, Call(where),
         UNCHANGED <<sync_state, el_sync_finished, el_sync_complete, told>>,
         where \in {"newPayload", "fetchUnsafe", "fetchDerived", "build", "getPayload"},
         pc \in {"execute", "newPayload", "fetchUnsafe", "fetchDerived", "build", "getPayload"}
  PROVE  EngineInv'
BY CallInv DEF Call, EngineInv, TypeOK, Control

LEMMA InsertExecuteInv ==
  ASSUME EngineInv, InsertExecute
  PROVE  EngineInv'
<1>1. ElKept
  BY SameElKept DEF InsertExecute
<1>2. Fail("Critical") \/ CompleteTask \/ Call("newPayload")
  BY DEF InsertExecute
<1> QED
  BY <1>1, <1>2, FailInv, CompleteInv, CallWhereInv DEF InsertExecute

LEMMA NewPayloadInv ==
  ASSUME EngineInv, NewPayload
  PROVE  EngineInv'
<1> DEFINE b == job.block
<1>1. b \in Block /\ job.kind \in TaskKind \cup {"Build"} /\ job \in Job
  BY DEF NewPayload, EngineInv, Control, TypeOK
<1>2. ElKept
  BY <1>1, PayloadKept DEF NewPayload
<1>3. CASE CallSync("insert", b, InsertUpdate(b))
  <2>1. IsUpdate(InsertUpdate(b))
    BY <1>1 DEF InsertUpdate, UnsafeUpdate, SafeAndUnsafeUpdate, IsUpdate, HeadName, Info
  <2>2. /\ "safe_head" \in DOMAIN InsertUpdate(b) <=> "local_safe_head" \in DOMAIN InsertUpdate(b)
        /\ "safe_head" \in DOMAIN InsertUpdate(b)
             => InsertUpdate(b)["local_safe_head"] = InsertUpdate(b)["safe_head"]
        /\ "finalized_head" \notin DOMAIN InsertUpdate(b)
    BY DEF InsertUpdate, UnsafeUpdate, SafeAndUnsafeUpdate
  <2> QED
    BY <1>1, <1>2, <1>3, <2>1, <2>2, CallSyncInv DEF NewPayload, Via, Info, TaskKind
<1>4. CASE insert_payload_invalid(b)
  <2>1. CASE Die
    BY <1>2, <2>1, QuietSettledInv DEF NewPayload, EngineInv, TypeOK, Die, Idle, Settled
  <2>2. CASE Fail("Temporary")
    BY <1>2, <2>2, FailInv DEF NewPayload
  <2>3. CASE /\ pc' = "build" /\ UNCHANGED <<tasks, upd, ret>>
             /\ job' = [job EXCEPT !.fallback = TRUE, !.block = DepositsOnly[b]]
    <3>1. job' \in Job /\ job'.kind = job.kind /\ job'.block \in Block
      BY <1>1, <2>3, BlockAssumption DEF Job, Info
    <3> QED
      BY <1>1, <1>2, <2>3, <3>1, CallInv DEF NewPayload
  <2> QED
    BY <1>4, <2>1, <2>2, <2>3 DEF insert_payload_invalid
<1> QED
  BY <1>3, <1>4 DEF NewPayload

LEMMA NewPayloadUnansweredInv ==
  ASSUME EngineInv, NewPayloadUnanswered
  PROVE  EngineInv'
<1>1. job.block \in Block
  BY DEF NewPayloadUnanswered, EngineInv, Control
<1> QED
  BY <1>1, PayloadKept, FailInv DEF NewPayloadUnanswered

(* The heads and the parent of the block under construction are block infos. *)
LEMMA BuildArguments ==
  ASSUME EngineInv, pc = "build"
  PROVE  Parent[job.block] \in Info /\ Safe \in Info /\ Finalized \in Info
BY BlockAssumption DEF EngineInv, Control, TypeOK, SyncState, HeadName, Safe, Finalized, Info

LEMMA StartBuildInv ==
  ASSUME EngineInv, start_build
  PROVE  EngineInv'
<1> DEFINE h == Parent[job.block]
<1>1. ElKept
  BY BuildArguments, FcuKept, SameElKept DEF start_build
<1>2. CASE \E severity \in {"Critical", "Flush", "Reset", "Temporary"} : Fail(severity)
  BY <1>1, <1>2, FailInv DEF start_build
<1>3. CASE Idle("drain") /\ UNCHANGED <<tasks, ret>>
  BY <1>1, <1>3, QuietSettledInv DEF start_build, EngineInv, TypeOK, Idle, Settled
<1>4. CASE Call("getPayload")
  BY <1>1, <1>4, CallWhereInv DEF start_build
<1> QED
  BY <1>2, <1>3, <1>4 DEF start_build

LEMMA BuildUnansweredInv ==
  ASSUME EngineInv, BuildUnanswered
  PROVE  EngineInv'
BY BuildArguments, FcuKept, FailInv DEF BuildUnanswered

LEMMA SealPayloadInv ==
  ASSUME EngineInv, seal_payload
  PROVE  EngineInv'
BY SameElKept, FailInv, CallWhereInv DEF seal_payload

LEMMA FetchUnansweredInv ==
  ASSUME EngineInv, FetchUnanswered
  PROVE  EngineInv'
BY SameElKept, FailInv DEF FetchUnanswered

-----------------------------------------------------------------------------
(* Consolidating and finalizing *)

(* The updates of the safe heads are well-formed. *)
LEMMA SafeUpdates ==
  ASSUME NEW b \in Block, NEW u \in {SafeUpdate(b), SafeAndUnsafeUpdate(b)}
  PROVE  /\ IsUpdate(u) /\ "finalized_head" \notin DOMAIN u
         /\ "safe_head" \in DOMAIN u /\ "local_safe_head" \in DOMAIN u
         /\ u["local_safe_head"] = u["safe_head"]
BY DEF SafeUpdate, SafeAndUnsafeUpdate, IsUpdate, HeadName, Info

(* A consolidation that hands its safe update to Synchronize. *)
LEMMA SafeCallSyncInv ==
  ASSUME EngineInv, ElKept, UNCHANGED <<sync_state, el_sync_finished, el_sync_complete, told>>,
         pc \in {"execute", "fetchUnsafe", "fetchDerived"},
         NEW via \in Via, NEW b \in Block, NEW u \in {SafeUpdate(b), SafeAndUnsafeUpdate(b)},
         CallSync(via, b, u)
  PROVE  EngineInv'
<1>1. job.kind \in TaskKind \cup {"Build"}
  BY DEF EngineInv, Control
<1> QED
  BY <1>1, SafeUpdates, CallSyncInv DEF Info, TaskKind

LEMMA ReconcileInv ==
  ASSUME EngineInv, ElKept, UNCHANGED <<sync_state, el_sync_finished, el_sync_complete, told>>,
         pc \in {"execute", "fetchUnsafe", "fetchDerived"}, reconcile_unsafe_to_safe
  PROVE  EngineInv'
<1>1. job.block \in Block
  BY DEF EngineInv, Control
<1> QED
  BY <1>1, CallWhereInv, SafeCallSyncInv DEF reconcile_unsafe_to_safe, Via

LEMMA ConsolidateExecuteInv ==
  ASSUME EngineInv, ConsolidateExecute
  PROVE  EngineInv'
<1>1. Call("fetchUnsafe") \/ Call("fetchDerived") \/ reconcile_unsafe_to_safe
  BY DEF ConsolidateExecute
<1> QED
  BY <1>1, SameElKept, CallWhereInv, ReconcileInv DEF ConsolidateExecute

LEMMA ReconcileExistingInv ==
  ASSUME EngineInv, reconcile_existing_derived_block
  PROVE  EngineInv'
<1>1. job.block \in Block
  BY DEF EngineInv, Control, reconcile_existing_derived_block
<1>2. \/ CallSync("reconcile", job.block, SafeAndUnsafeUpdate(job.block))
      \/ reconcile_unsafe_to_safe
  BY DEF reconcile_existing_derived_block
<1> QED
  BY <1>1, <1>2, SameElKept, SafeCallSyncInv, ReconcileInv
  DEF reconcile_existing_derived_block, Via

LEMMA CanonicalBlocks ==
  ASSUME EngineInv, NEW n, NEW b \in BlocksAt(n)
  PROVE  b \in Block /\ Number[b] = n
BY BlockAssumption DEF EngineInv, TypeOK, ELState, BlocksAt

LEMMA ConsolidateInv ==
  ASSUME EngineInv, consolidate
  PROVE  EngineInv'
<1>1. ElKept
  BY SameElKept DEF consolidate
<1>2. CASE Fail("Reset") /\ UNCHANGED sync_state
  BY <1>1, <1>2, FailInv DEF consolidate
<1>3. ASSUME NEW b \in BlocksAt(Number[job.block]), CompleteTask,
             sync_state' = Updated(sync_state, SafeUpdate(b))
      PROVE  EngineInv'
  <2>1. b \in Block
    BY <1>3, CanonicalBlocks
  <2>2. /\ sync_state' \in SyncState
        /\ sync_state'["local_safe_head"] = sync_state'["safe_head"]
        /\ \A h \in HeadName : sync_state'[h] = IF h \in DOMAIN SafeUpdate(b)
                                                  THEN SafeUpdate(b)[h] ELSE sync_state[h]
    BY <1>3, <2>1, SafeUpdates, UpdatedHeads DEF EngineInv, TypeOK, LocalSafeIsSafe, Safe
  <2>3. Unsafe' = Unsafe /\ Finalized' = Finalized
    BY <2>2 DEF SafeUpdate, HeadName, Unsafe, Finalized
  <2> QED
    BY <1>1, <1>3, <2>2, <2>3, CompleteSettles, SettledInv
    DEF consolidate, EngineInv, TypeOK, UnsafeServed, LocalSafeIsSafe, Safe, ElKept,
        ValidatorFinalized, FinalizedNotAheadOfUnsafe
<1>4. ASSUME NEW b \in BlocksAt(Number[job.block]), UNCHANGED sync_state,
             reconcile_unsafe_to_safe \/ CallSync("consolidate", b, SafeUpdate(b))
      PROVE  EngineInv'
  BY <1>1, <1>4, CanonicalBlocks, ReconcileInv, SafeCallSyncInv DEF consolidate, Via
<1> QED
  BY <1>2, <1>3, <1>4 DEF consolidate

(* FinalizeTask refuses a number below the finalized or above the safe head. *)
LEMMA FinalizeExecuteInv ==
  ASSUME EngineInv, FinalizeExecute
  PROVE  EngineInv'
<1>1. ElKept /\ job.block \in Block /\ job.kind \in TaskKind \cup {"Build"} /\ job \in Job
  BY SameElKept DEF FinalizeExecute, EngineInv, Control, TypeOK
<1>2. CASE CompleteTask \/ Fail("Critical")
  BY <1>1, <1>2, CompleteInv, FailInv DEF FinalizeExecute
<1>3. CASE /\ Call("fetchFinal") /\ ~(Number[job.block] < Height(Finalized))
           /\ ~(Height(Safe) < Number[job.block])
  <2>1. Height(Finalized) \in Nat /\ Height(Safe) \in Nat /\ Number[job.block] \in Nat
    BY <1>1, BlockAssumption
    DEF EngineInv, TypeOK, SyncState, HeadName, Finalized, Safe, Height, Info
  <2>2. \A b \in Block : Number[b] = Number[job.block] => InFinalizeRange(b)
    BY <1>3, <2>1 DEF InFinalizeRange
  <2> QED
    BY <1>1, <1>3, <2>2, CallInv DEF Call, FinalizeExecute
<1> QED
  BY <1>2, <1>3 DEF FinalizeExecute

LEMMA FinalizeFetchInv ==
  ASSUME EngineInv, FinalizeFetch
  PROVE  EngineInv'
<1>1. ElKept /\ job.block \in Block /\ job.kind \in TaskKind \cup {"Build"}
  BY SameElKept DEF FinalizeFetch, EngineInv, Control
<1>2. ASSUME NEW b \in BlocksAt(Number[job.block]), CallSync("finalize", b, FinalizedUpdate(b))
      PROVE  EngineInv'
  <2>1. b \in Block /\ InFinalizeRange(b)
    BY <1>2, CanonicalBlocks DEF EngineInv, Pending, FinalizeFetch
  <2>2. /\ IsUpdate(FinalizedUpdate(b)) /\ DOMAIN FinalizedUpdate(b) = {"finalized_head"}
        /\ FinalizedUpdate(b)["finalized_head"] = b
    BY <2>1 DEF FinalizedUpdate, IsUpdate, HeadName, Info
  <2> QED
    BY <1>1, <1>2, <2>1, <2>2, CallSyncInv DEF FinalizeFetch, Via, Info, TaskKind
<1> QED
  BY <1>1, <1>2, FailInv DEF FinalizeFetch

-----------------------------------------------------------------------------
(* The queue, the requests and the bootstrap *)

LEMMA PeekTaskInv ==
  ASSUME EngineInv, PeekTask
  PROVE  EngineInv'
<1>1. PICK i \in 1..Len(tasks) : job' = JobOfTask(tasks[i])
  BY DEF PeekTask
<1>2. tasks[i] \in Task
  BY DEF EngineInv, TypeOK
<1>3. job' \in Job /\ job'.kind \in TaskKind /\ job'.block \in Block
  BY <1>1, <1>2 DEF JobOfTask, JobOf, Task, Job, JobKind, Via, Info
<1> QED
  BY <1>3, SameElKept, CallInv DEF PeekTask

(* A step that only moves the processor between its loop and the queue. *)
LEMMA LoopInv ==
  ASSUME EngineInv, UNCHANGED <<sync_state, el_sync_finished, el_sync_complete, job, upd, el>>,
         tasks' \in Seq(Task), ret' \in Ret, told' \in Info,
         pc \in {"recv", "drain"}, pc' \in {"recv", "drain", "post"}
  PROVE  EngineInv'
<1>1. TypeOK'
  BY DEF EngineInv, TypeOK, IsUpdate, Pc
<1>2. Control'
  BY DEF EngineInv, Control
<1>3. Pending'
  <2>1. DOMAIN upd = {} /\ upd' = upd
    BY DEF EngineInv, Control, NoUpdate
  <2> QED
    BY <2>1 DEF Pending
<1>4. UnsafeServed' /\ LocalSafeIsSafe' /\ ValidatorFinalized' /\ HeadServed'
  BY DEF EngineInv, UnsafeServed, LocalSafeIsSafe, ValidatorFinalized, FinalizedNotAheadOfUnsafe,
     HeadServed, Unsafe, Safe, Finalized
<1> QED
  BY <1>1, <1>2, <1>3, <1>4 DEF EngineInv

LEMMA DrainedInv ==
  ASSUME EngineInv, Drained
  PROVE  EngineInv'
BY LoopInv DEF Drained, EngineInv, TypeOK

LEMMA EnqueueInv ==
  ASSUME EngineInv, NEW t \in Task, Enqueue(t)
  PROVE  EngineInv'
<1>1. Append(tasks, t) \in Seq(Task)
  BY AppendProperties DEF EngineInv, TypeOK
<1> QED
  BY <1>1, LoopInv DEF Enqueue, EngineInv, TypeOK

LEMMA TaskTypes ==
  ASSUME NEW b \in Block, NEW x \in BOOLEAN
  PROVE  /\ InsertTask(b, x) \in Task /\ AttributesTask(b, x) \in Task
         /\ BlockInfoTask(b) \in Task /\ FinalizeTask(b) \in Task
BY DEF InsertTask, AttributesTask, BlockInfoTask, FinalizeTask, Task, TaskKind

LEMMA FindStartInv ==
  ASSUME EngineInv, find_starting_forkchoice
  PROVE  EngineInv'
<1>1. ElKept /\ job.kind = "Reset"
  BY SameElKept DEF find_starting_forkchoice, EngineInv, Control
<1>2. CASE ResetFails
  BY <1>1, <1>2, QuietSettledInv
  DEF find_starting_forkchoice, ResetFails, Idle, Settled, EngineInv, TypeOK
<1>3. ASSUME NEW u \in Ancestors[el.head], NEW s \in Ancestors[el.head],
             CallSync("reset", NoBlock, StartUpdate(u, s, StartFinalized))
      PROVE  EngineInv'
  <2>1. u \in Info /\ s \in Info /\ StartFinalized \in Info
    BY BlockAssumption DEF EngineInv, TypeOK, ELState, StartFinalized, Info
  <2>2. IsUpdate(StartUpdate(u, s, StartFinalized))
    BY <2>1 DEF IsUpdate, StartUpdate, HeadName
  <2>3. /\ "safe_head" \in DOMAIN StartUpdate(u, s, StartFinalized)
        /\ "local_safe_head" \in DOMAIN StartUpdate(u, s, StartFinalized)
        /\ StartUpdate(u, s, StartFinalized)["local_safe_head"]
             = StartUpdate(u, s, StartFinalized)["safe_head"]
    BY DEF StartUpdate, HeadName
  <2> QED
    BY <1>1, <1>3, <2>2, <2>3, CallSyncInv DEF find_starting_forkchoice, Via, Info, TaskKind
<1> QED
  BY <1>2, <1>3 DEF find_starting_forkchoice

(* A request or a drain that ends idle, or enters the reset. *)
LEMMA IdleOrResetInv ==
  ASSUME EngineInv, UNCHANGED <<sync_state, el_sync_finished, told, el>>,
         el_sync_complete' \in BOOLEAN,
         \/ \E where \in {"recv", "drain"} : Idle(where) /\ UNCHANGED <<tasks, ret>>
         \/ \E r \in Ret : EnterReset(r)
  PROVE  EngineInv'
<1>1. Settled
  BY ResetSettles DEF EngineInv, TypeOK, Idle, Settled
<1> QED
  BY <1>1, SameElKept, QuietSettledInv

LEMMA ProcessorDrainedInv ==
  ASSUME EngineInv, ProcessorDrained
  PROVE  EngineInv'
BY IdleOrResetInv DEF ProcessorDrained, EngineInv, TypeOK, Ret

LEMMA RequestInv ==
  ASSUME EngineInv, Request
  PROVE  EngineInv'
<1>1. ASSUME NEW b \in Block,
             \/ ProcessUnsafeL2Block(b) \/ ProcessAdminUnsafeL2Block(b)
             \/ ProcessLocalUnsafeL2Block(b) \/ ProcessFinalizedL2BlockNumber(b)
             \/ \E last \in BOOLEAN : ProcessSafeL2Signal(b, last)
      PROVE  EngineInv'
  BY <1>1, TaskTypes, EnqueueInv
  DEF ProcessUnsafeL2Block, ProcessAdminUnsafeL2Block, ProcessLocalUnsafeL2Block,
      ProcessSafeL2Signal, ProcessFinalizedL2BlockNumber
<1>2. ASSUME NEW b \in Block, BuildRequest(b)
      PROVE  EngineInv'
  <2>1. JobOf("Build", b) \in Job
    BY DEF JobOf, Job, JobKind, Via, Info
  <2>2. job'.kind = "Build" /\ job'.block = b /\ job' \in Job
    BY <1>2, <2>1 DEF BuildRequest, JobOf
  <2> QED
    BY <1>2, <2>2, SameElKept, CallInv DEF BuildRequest
<1>3. ASSUME NEW b \in Block, GetPayloadRequest(b)
      PROVE  EngineInv'
  BY <1>3, IdleOrResetInv DEF GetPayloadRequest, EngineInv, TypeOK, Ret
<1>4. CASE ReadUnsafeHead
  BY <1>4, LoopInv DEF ReadUnsafeHead, EngineInv, TypeOK, SyncState, HeadName, Unsafe
<1>5. CASE ResetRequest
  BY <1>5, IdleOrResetInv DEF ResetRequest, EngineInv, TypeOK, Ret
<1> QED
  BY <1>1, <1>2, <1>3, <1>4, <1>5 DEF Request

(* The default heads satisfy what is asked of the heads. *)
LEMMA DefaultHeads ==
  /\ DefaultSyncState \in SyncState
  /\ \A h \in HeadName : DefaultSyncState[h] = NoBlock
  /\ Height(NoBlock) = 0
BY DEF DefaultSyncState, SyncState, Info, Height

LEMMA BootstrapValidatorInv ==
  ASSUME EngineInv, bootstrap_validator
  PROVE  EngineInv'
<1>1. Settled /\ ElKept
  BY SameElKept DEF bootstrap_validator, Idle, Settled, EngineInv, TypeOK
<1>2. sync_state = DefaultSyncState
  BY DEF bootstrap_validator, EngineInv, Control
<1>3. /\ sync_state' \in SyncState /\ sync_state'["local_safe_head"] = sync_state'["safe_head"]
      /\ sync_state'["finalized_head"] = NoBlock
      /\ sync_state'["unsafe_head"] \in {NoBlock, el.head}
  BY <1>2, DefaultHeads, BlockAssumption
  DEF bootstrap_validator, EngineInv, TypeOK, ELState, Updated, UnsafeUpdate, SyncState, HeadName, Info
<1>4. Height(sync_state'["finalized_head"]) <= Height(sync_state'["unsafe_head"])
  BY <1>3, DefaultHeads, BlockAssumption DEF EngineInv, TypeOK, ELState, Height
<1> QED
  BY <1>1, <1>3, <1>4, SettledInv
  DEF bootstrap_validator, EngineInv, TypeOK, HeadServed, UnsafeServed, LocalSafeIsSafe, ElKept,
      ValidatorFinalized, FinalizedNotAheadOfUnsafe, Unsafe, Safe, Finalized

(* A probe passes on a head the EL has executed. *)
LEMMA ProbeInv ==
  ASSUME EngineInv, Role = "sequencer", NEW u, Probe(u), IsUpdate(u),
         "safe_head" \in DOMAIN u <=> "local_safe_head" \in DOMAIN u,
         "safe_head" \in DOMAIN u => u["local_safe_head"] = u["safe_head"],
         "unsafe_head" \in DOMAIN u, u["unsafe_head"] \in el.known
  PROVE  EngineInv'
<1>1. job' \in Job /\ job'.kind = "Probe"
  BY DEF Probe, JobOf, Job, JobKind, Via, Info
<1>2. TypeOK'
  BY <1>1 DEF Probe, EngineInv, TypeOK, Pc
<1>3. Control'
  BY <1>1 DEF Probe, Control, TaskKind
<1>4. Pending'
  BY <1>1 DEF Probe, Pending
<1>5. UnsafeServed' /\ LocalSafeIsSafe' /\ ValidatorFinalized' /\ HeadServed'
  BY DEF Probe, EngineInv, UnsafeServed, LocalSafeIsSafe, ValidatorFinalized, HeadServed,
     Unsafe, Safe
<1> QED
  BY <1>2, <1>3, <1>4, <1>5 DEF EngineInv

LEMMA BootstrapFollowerInv ==
  ASSUME EngineInv, bootstrap_conductor_follower
  PROVE  EngineInv'
<1>1. /\ IsUpdate(UnsafeUpdate(Genesis)) /\ DOMAIN UnsafeUpdate(Genesis) = {"unsafe_head"}
      /\ UnsafeUpdate(Genesis)["unsafe_head"] = Genesis
  BY BlockAssumption DEF IsUpdate, UnsafeUpdate, HeadName, Info
<1> QED
  BY <1>1, ProbeInv DEF bootstrap_conductor_follower, EngineInv, HeadServed

LEMMA BootstrapSequencerInv ==
  ASSUME EngineInv, bootstrap_active_sequencer
  PROVE  EngineInv'
<1>1. CASE el.head = Genesis
  BY <1>1, IdleOrResetInv DEF bootstrap_active_sequencer, EngineInv, TypeOK, Ret
<1>2. CASE el.head # Genesis
  <2>1. PICK s \in {el.safe, NoBlock}, f \in {el.finalized, NoBlock} :
          Probe(StartUpdate(el.head, s, f))
    BY <1>2 DEF bootstrap_active_sequencer
  <2>2. el.head \in Info /\ s \in Info /\ f \in Info
    BY DEF EngineInv, TypeOK, ELState, Info
  <2>3. /\ IsUpdate(StartUpdate(el.head, s, f)) /\ DOMAIN StartUpdate(el.head, s, f) = HeadName
        /\ StartUpdate(el.head, s, f)["unsafe_head"] = el.head
        /\ StartUpdate(el.head, s, f)["local_safe_head"] = StartUpdate(el.head, s, f)["safe_head"]
    BY <2>2 DEF IsUpdate, StartUpdate, HeadName
  <2> QED
    BY <2>1, <2>3, ProbeInv DEF bootstrap_active_sequencer, EngineInv, HeadServed, HeadName
<1> QED
  BY <1>1, <1>2

LEMMA RestartInv ==
  ASSUME EngineInv, Restart
  PROVE  EngineInv'
<1>1. TypeOK'
  <2>1. NoJob \in Job
    BY DEF NoJob, JobOf, Job, JobKind, Via, Info
  <2>2. IsUpdate(NoUpdate)
    BY DEF IsUpdate, NoUpdate, HeadName
  <2> QED
    BY <2>1, <2>2, DefaultHeads, EmptySeq
    DEF Restart, Idle, EngineInv, TypeOK, Pc, Ret, Info
<1>2. Control'
  BY DEF Restart, Idle, Control, NoJob, JobOf, TaskKind
<1>3. Pending'
  BY DEF Restart, Idle, Pending, NoUpdate, NoJob, JobOf
<1>4. UnsafeServed' /\ LocalSafeIsSafe' /\ ValidatorFinalized' /\ HeadServed'
  BY DefaultHeads
  DEF Restart, EngineInv, UnsafeServed, LocalSafeIsSafe, ValidatorFinalized, HeadServed,
      FinalizedNotAheadOfUnsafe, Unsafe, Safe, Finalized, HeadName
<1> QED
  BY <1>1, <1>2, <1>3, <1>4 DEF EngineInv

(* The EL's own progress touches nothing of the engine. *)
LEMMA ElBackfillInv ==
  ASSUME EngineInv, ElBackfill
  PROVE  EngineInv'
<1>1. ElKept
  <2>1. el.target \in Block
    BY DEF ElBackfill, EngineInv, TypeOK, ELState, Info
  <2>2. Ancestors[el.target] \subseteq Block
    BY <2>1, BlockAssumption
  <2>3. el.target \in Ancestors[el.target]
    BY <2>1, BlockAssumption, ShapeAssumption
  <2>4. CASE Tainted(el.target)
    BY <2>4 DEF ElBackfill, EngineInv, TypeOK, ELState, HeadServed, ElKept, Info
  <2>5. CASE ~Tainted(el.target)
    <3>1. el' = [el EXCEPT !.known = el.known \cup Ancestors[el.target],
                           !.head = el.target, !.target = NoBlock]
      BY <2>5 DEF ElBackfill
    <3> QED
      BY <2>1, <2>2, <2>3, <3>1 DEF EngineInv, TypeOK, ELState, ElKept, Info
  <2> QED
    BY <2>4, <2>5
<1>2. TypeOK'
  BY <1>1 DEF ElBackfill, EngineInv, TypeOK, ElKept, IsUpdate
<1>3. Control' /\ Pending'
  BY <1>1 DEF ElBackfill, EngineInv, Control, Pending, ElKept, InFinalizeRange, Finalized, Safe
<1>4. UnsafeServed' /\ LocalSafeIsSafe' /\ ValidatorFinalized' /\ HeadServed'
  BY <1>1 DEF ElBackfill, EngineInv, UnsafeServed, LocalSafeIsSafe, ValidatorFinalized, ElKept,
     FinalizedNotAheadOfUnsafe, HeadServed, Unsafe, Safe, Finalized
<1> QED
  BY <1>2, <1>3, <1>4 DEF EngineInv

-----------------------------------------------------------------------------
(* The theorems *)

LEMMA InitInv == Init => EngineInv
<1> SUFFICES ASSUME Init PROVE EngineInv
  OBVIOUS
<1>1. TypeOK
  <2>1. NoJob \in Job /\ IsUpdate(NoUpdate)
    BY DEF NoJob, JobOf, Job, JobKind, Via, Info, IsUpdate, NoUpdate, HeadName
  <2>2. el \in ELState
    BY BlockAssumption DEF Init, ELState, Info
  <2> QED
    BY <2>1, <2>2, DefaultHeads, EmptySeq DEF Init, TypeOK, Pc, Ret, Info
<1>2. Control /\ Pending
  BY DEF Init, Control, Pending, NoUpdate, NoJob, JobOf, TaskKind
<1>3. UnsafeServed /\ LocalSafeIsSafe /\ ValidatorFinalized /\ HeadServed
  BY DefaultHeads
  DEF Init, UnsafeServed, LocalSafeIsSafe, ValidatorFinalized, HeadServed,
      FinalizedNotAheadOfUnsafe, Unsafe, Safe, Finalized, HeadName
<1> QED
  BY <1>1, <1>2, <1>3 DEF EngineInv

LEMMA StutterInv ==
  ASSUME EngineInv, UNCHANGED vars
  PROVE  EngineInv'
<1>1. TypeOK' /\ Control' /\ Pending'
  BY DEF vars, EngineInv, TypeOK, IsUpdate, Control, Pending, InFinalizeRange, Finalized, Safe
<1> QED
  BY <1>1 DEF vars, EngineInv, UnsafeServed, LocalSafeIsSafe, ValidatorFinalized, HeadServed,
     FinalizedNotAheadOfUnsafe, Unsafe, Safe, Finalized

LEMMA NextInv == EngineInv /\ [Next]_vars => EngineInv'
<1> SUFFICES ASSUME EngineInv, [Next]_vars PROVE EngineInv'
  OBVIOUS
<1>1. CASE Boot
  BY <1>1, BootstrapValidatorInv, BootstrapFollowerInv, BootstrapSequencerInv DEF Boot
<1>2. CASE Request
  BY <1>2, RequestInv
<1>3. CASE Work
  BY <1>3, PeekTaskInv, DrainedInv, ProcessorDrainedInv, FindStartInv, InsertExecuteInv,
     ConsolidateExecuteInv, FinalizeExecuteInv, SyncSkipInv, SyncRefuseInv DEF Work
<1>4. CASE Answered
  BY <1>4, NewPayloadInv, SyncForkchoiceInv, StartBuildInv, SealPayloadInv, ConsolidateInv,
     ReconcileExistingInv, FinalizeFetchInv DEF Answered
<1>5. CASE Unanswered
  BY <1>5, NewPayloadUnansweredInv, SyncUnansweredInv, BuildUnansweredInv, FetchUnansweredInv
  DEF Unanswered
<1>6. CASE ElBackfill \/ Restart
  BY <1>6, ElBackfillInv, RestartInv
<1>7. CASE UNCHANGED vars
  BY <1>7, StutterInv
<1> QED
  BY <1>1, <1>2, <1>3, <1>4, <1>5, <1>6, <1>7 DEF Next

(* The inductive invariant holds in every run of the engine. *)
THEOREM EngineInvariant == Spec => []EngineInv
<1>1. EngineInv /\ [Next]_vars => EngineInv'
  BY NextInv
<1> QED
  BY InitInv, <1>1, PTL DEF Spec

(* Every variable of the engine keeps its type. *)
THEOREM TypeCorrect == Spec => []TypeOK
<1>1. EngineInv => TypeOK
  BY DEF EngineInv
<1> QED
  BY EngineInvariant, <1>1, PTL

(* Whatever the EL answers, in whatever order, and across restarts, the unsafe *)
(* head is a block the EL has executed.                                        *)
THEOREM UnsafeIsServed == Spec => []UnsafeServed
<1>1. EngineInv => UnsafeServed
  BY DEF EngineInv
<1> QED
  BY EngineInvariant, <1>1, PTL

(* The safe and the local-safe head never part. *)
THEOREM SafeHeadsAgree == Spec => []LocalSafeIsSafe
<1>1. EngineInv => LocalSafeIsSafe
  BY DEF EngineInv
<1> QED
  BY EngineInvariant, <1>1, PTL

(* A validator's finalized head is never above its unsafe head, so the         *)
(* FinalizedAheadOfUnsafe errors of Synchronize can only refuse an update, and *)
(* the one of start_build is never raised.                                     *)
THEOREM ValidatorFinalizedNotAhead ==
  ASSUME Role = "validator"
  PROVE  Spec => []FinalizedNotAheadOfUnsafe
<1>1. EngineInv => FinalizedNotAheadOfUnsafe
  BY DEF EngineInv, ValidatorFinalized
<1> QED
  BY EngineInvariant, <1>1, PTL

-----------------------------------------------------------------------------
(* The finalized head *)

(* A Synchronize that returns with the pending update, or with the part of it  *)
(* that survives a Syncing answer, finalizes only what FinalizeTask admitted.  *)
LEMMA SyncForkchoiceFinalizes ==
  ASSUME EngineInv, SyncForkchoice
  PROVE  FinalizedStep
<1> SUFFICES ASSUME job.kind \notin {"Reset", "Probe"}, Finalized' # Finalized
             PROVE  /\ Height(Finalized) <= Height(Finalized')
                    /\ Height(Finalized') <= Height(Safe')
  BY DEF FinalizedStep
<1>1. PICK u \in {upd, safe_only_sync_update} : sync_state' = Updated(sync_state, u)
  BY DEF SyncForkchoice, SyncReturns, SyncFails, Seeded, NewSyncState, Finalized
<1>2. DOMAIN u \subseteq DOMAIN upd /\ \A h \in DOMAIN u : u[h] = upd[h]
  BY DEF safe_only_sync_update
<1>3. \A h \in HeadName : sync_state'[h] = IF h \in DOMAIN u THEN u[h] ELSE sync_state[h]
  BY <1>1 DEF Updated
<1>4. "finalized_head" \in DOMAIN u /\ Finalized' = upd["finalized_head"]
  BY <1>2, <1>3 DEF Finalized, HeadName
<1>5. DOMAIN upd = {"finalized_head"} /\ InFinalizeRange(Finalized')
  BY <1>2, <1>4 DEF EngineInv, Pending
<1>6. Safe' = Safe
  BY <1>2, <1>3, <1>5 DEF Safe, HeadName
<1> QED
  BY <1>5, <1>6, BlockAssumption DEF InFinalizeRange, Height

(* No other step moves the finalized head of a running engine. *)
LEMMA NextFinalizes == EngineInv /\ [Next]_vars => [FinalizedStep]_vars
<1> SUFFICES ASSUME EngineInv, Next PROVE FinalizedStep
  OBVIOUS
<1>1. ASSUME UNCHANGED sync_state PROVE FinalizedStep
  BY <1>1 DEF FinalizedStep, Finalized
<1>2. CASE Boot
  <2>1. CASE bootstrap_validator
    <3>1. Finalized' = Finalized
      BY <2>1 DEF bootstrap_validator, EngineInv, TypeOK, SyncState, Updated, UnsafeUpdate, HeadName,
         Finalized
    <3> QED
      BY <3>1 DEF FinalizedStep
  <2>2. CASE bootstrap_conductor_follower \/ bootstrap_active_sequencer
    BY <1>1, <2>2 DEF bootstrap_conductor_follower, bootstrap_active_sequencer, Probe
  <2> QED
    BY <1>2, <2>1, <2>2 DEF Boot
<1>3. CASE Request
  BY <1>1, <1>3
  DEF Request, ProcessUnsafeL2Block, ProcessAdminUnsafeL2Block, ProcessLocalUnsafeL2Block,
      ProcessSafeL2Signal, ProcessFinalizedL2BlockNumber, BuildRequest, GetPayloadRequest,
      ReadUnsafeHead, ResetRequest, Enqueue
<1>4. CASE Work
  <2>1. CASE SyncSkip \/ SyncRefuse
    BY <2>1 DEF SyncSkip, SyncRefuse, SyncReturns, SyncFails, Seeded, FinalizedStep, Finalized
  <2> QED
    BY <1>1, <1>4, <2>1
    DEF Work, PeekTask, Drained, ProcessorDrained, find_starting_forkchoice, InsertExecute,
        ConsolidateExecute, FinalizeExecute
<1>5. CASE Answered
  <2>1. CASE consolidate
    <3>1. Finalized' = Finalized
      BY <2>1 DEF consolidate, EngineInv, TypeOK, SyncState, Updated, SafeUpdate, HeadName, Finalized
    <3> QED
      BY <3>1 DEF FinalizedStep
  <2> QED
    BY <1>1, <1>5, <2>1, SyncForkchoiceFinalizes
    DEF Answered, NewPayload, start_build, seal_payload, reconcile_existing_derived_block,
        FinalizeFetch
<1>6. CASE Unanswered
  BY <1>1, <1>6
  DEF Unanswered, NewPayloadUnanswered, SyncUnanswered, BuildUnanswered, FetchUnanswered,
      SyncFails, Seeded, FinalizedStep, Finalized
<1>7. CASE ElBackfill
  BY <1>1, <1>7 DEF ElBackfill
<1>8. CASE Restart
  BY <1>8 DEF Restart, Idle, FinalizedStep
<1> QED
  BY <1>2, <1>3, <1>4, <1>5, <1>6, <1>7, <1>8 DEF Next

(* Between resets and restarts the finalized head only rises, and only to a    *)
(* block at or below the safe head.                                            *)
THEOREM FinalizedOnlyRises == Spec => FinalizedMonotone
<1>1. EngineInv /\ [Next]_vars => [FinalizedStep]_vars
  BY NextFinalizes
<1> QED
  BY EngineInvariant, <1>1, PTL DEF Spec, FinalizedMonotone

=============================================================================
