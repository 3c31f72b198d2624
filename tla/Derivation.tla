----------------------------- MODULE Derivation -----------------------------
(***************************************************************************)
(* The derivation actor of the consensus node (crate consensus/service,     *)
(* actors/derivation) composed with the engine actor as derivation sees it, *)
(* the L1 watcher, and the safe head database.                              *)
(*                                                                          *)
(* The actors share nothing but two FIFO channels.  A handler of one actor  *)
(* is one step, except where it waits: the engine sends its messages to     *)
(* derivation one at a time, so that the L1 watcher's can come between      *)
(* them, and a reset request blocks derivation until the engine replies.    *)
(*                                                                          *)
(* The engine is the promise of module Engine: what happens to the safe and *)
(* finalized head when a request is served, and which messages follow.  The *)
(* pipeline is the promise of crate consensus/derive: the batch of L2 block *)
(* b is read at L1 block From[b].                                           *)
(***************************************************************************)
EXTENDS SafeDB, Finalizer, Sequences

CONSTANTS
  Genesis,       \* the L2 genesis block
  NoBlock,       \* L2BlockInfo::default(), a member of Block with number 0
  Parent,        \* L2 block -> its parent
  Ancestors,     \* L2 block -> the blocks of its chain, itself included
  DepositsOnly,  \* L2 block -> the block left of it when its batch is invalid
  From,          \* L2 block -> the L1 block at which its batch is read
  L1Genesis,     \* the L1 block the rollup starts at
  NoL1,          \* no L1 block
  L1Ancestors,   \* L1 block -> the blocks of its chain, itself included
  DbFails,       \* whether writes of the safe head database may fail
  ELSyncing,     \* whether the EL may answer Syncing again after its sync
  Starving,      \* whether a task of the engine may fail with temporary errors forever
  MaxResets,     \* bound on engine resets other than the first of a process
  MaxRestarts,   \* bound on restarts
  MaxReorgs      \* bound on L1 reorgs

ASSUME TreeAssumption ==
  /\ {Genesis, NoBlock} \subseteq Block /\ Genesis # NoBlock
  /\ Number[NoBlock] = 0 /\ Number[Genesis] = 0 /\ L1Number[Origin[NoBlock]] = 0
  /\ Parent \in [Block -> Block] /\ DepositsOnly \in [Block -> Block]
  /\ Ancestors \in [Block -> SUBSET Block]
  /\ From \in [Block -> L1Block] /\ NoL1 \notin L1Block /\ L1Genesis \in L1Block
  /\ L1Ancestors \in [L1Block -> SUBSET L1Block]
  /\ \A b \in Block \ {Genesis, NoBlock} :
       /\ Number[b] = Number[Parent[b]] + 1 /\ Ancestors[b] = {b} \cup Ancestors[Parent[b]]
       /\ Origin[b] \in L1Ancestors[From[b]] /\ Origin[Parent[b]] \in L1Ancestors[Origin[b]]
       /\ Parent[DepositsOnly[b]] = Parent[b] /\ From[DepositsOnly[b]] = From[b]

ASSUME BoundAssumption ==
  {DbFails, ELSyncing, Starving} \subseteq BOOLEAN /\ {MaxResets, MaxRestarts, MaxReorgs} \subseteq Nat

VARIABLES
  up,                    \* the node runs; FALSE once an actor returned an error
  fault,                 \* why it stopped
  \* the engine actor and the labels of its execution layer
  safe,                  \* EngineSyncState::safe_head
  finalized,             \* EngineSyncState::finalized_head
  label,                 \* the EL's safe label, which lags behind within a span batch
  final_label,           \* the EL's finalized label
  tasks,                 \* Engine::tasks between two executions, highest priority first
  drain,                 \* "idle" between two drains, "running" within one, or "stuck" in a task
  unmoved,               \* history: the last attributes were dropped without a word to derivation
  last_safe_head_sent,   \* EngineProcessor::last_safe_head_sent
  el_sync_complete,      \* EngineProcessor::el_sync_complete
  out,                   \* what the engine still has to send for the request it serves
  reply,                 \* the reset request: "none", "waiting", "served" or "failed"
  \* the channels
  to_engine, to_derivation,
  \* the derivation actor
  state,                 \* DerivationStateMachine::state
  confirmed_safe_head,   \* DerivationStateMachine::confirmed_safe_head
  pending_derived_from,
  awaiting_finalization, \* L2Finalizer
  finalized_l1_block,    \* L2Finalizer
  origin,                \* the pipeline's L1 origin
  db,                    \* the safe head database
  \* L1 and what the watcher has sent of it
  l1_head, l1_finalized, head_sent, finalized_sent,
  resets, restarts, reorgs  \* counters for the three bounds

headVars == <<safe, finalized, label, final_label>>
engineVars == <<headVars, tasks, drain, unmoved, last_safe_head_sent, el_sync_complete, out>>
pipelineVars == <<awaiting_finalization, origin, pending_derived_from>>
l1Vars == <<l1_head, l1_finalized, head_sent, finalized_sent, reorgs>>
vars == <<up, fault, engineVars, reply, to_engine, to_derivation, state, confirmed_safe_head,
          pipelineVars, finalized_l1_block, db, l1Vars, resets, restarts>>

-----------------------------------------------------------------------------
(* Messages *)

SafeHead(b) == [kind |-> "SafeHead", block |-> b]
SyncCompleted(b) == [kind |-> "SyncCompleted", block |-> b]
ResetSignal(b) == [kind |-> "Reset", block |-> b]
FlushChannel == [kind |-> "Flush", block |-> NoBlock]
L1Head == [kind |-> "L1Head", block |-> NoBlock]
FinalizedL1(h) == [kind |-> "FinalizedL1", l1 |-> h]

DerivationRequest == [kind : {"SafeHead", "SyncCompleted", "Reset", "Flush", "L1Head"}, block : Block]
                       \cup [kind : {"FinalizedL1"}, l1 : L1Block]

Attributes(b) == [kind |-> "Attributes", block |-> b]
FinalizeRequest(n) == [kind |-> "Finalize", number |-> n]
ResetRequest == [kind |-> "Reset"]

EngineRequest == [kind : {"Attributes"}, block : Block] \cup [kind : {"Finalize"}, number : Nat]
                   \cup [kind : {"Reset"}]

Canonical(h) == h \in L1Ancestors[l1_head]

\* An actor returned an error: the service cancels all of them.
Stop(why) == up' = FALSE /\ fault' = why

Running == up /\ UNCHANGED <<up, fault>>

-----------------------------------------------------------------------------
(* The state machine *)

State == {"AwaitingELSyncCompletion", "AwaitingL1Data", "AwaitingSafeHeadConfirmation",
          "AwaitingSignal", "AwaitingUpdateAfterSignal", "Deriving"}

\* Variant: L1 data starts derivation while the EL still syncs.
ResumesBeforeSync(s, update) ==
  update = "L1Data" /\ s \in {"AwaitingELSyncCompletion", "AwaitingL1Data", "AwaitingUpdateAfterSignal"}

\* The updates that start derivation.
Resumes(s, update) ==
  \/ s = "AwaitingELSyncCompletion" /\ update = "ELSyncCompleted"
  \/ s \in {"AwaitingL1Data", "AwaitingUpdateAfterSignal"} /\ update = "L1Data"
  \/ s \in {"AwaitingSafeHeadConfirmation", "AwaitingUpdateAfterSignal"} /\ update = "Confirmed"

\* Variant: L1 data is not expected while attributes are unconfirmed.
IgnoredButL1Data(s, update) ==
  \/ s = "AwaitingELSyncCompletion" /\ update \in {"Confirmed", "SignalProcessed", "L1Data"}
  \/ s = "AwaitingSignal" /\ update \in {"L1Data", "MoreDataNeeded"}

\* Variant: a signal does not end the wait for a confirmation.
IgnoredSignal(s, update) ==
  \/ s = "AwaitingELSyncCompletion" /\ update \in {"Confirmed", "SignalProcessed", "L1Data"}
  \/ s = "AwaitingSafeHeadConfirmation" /\ update \in {"L1Data", "SignalProcessed"}
  \/ s = "AwaitingSignal" /\ update \in {"L1Data", "MoreDataNeeded"}

\* The updates that a state accepts and does not react to.
Ignored(s, update) ==
  \/ s = "AwaitingELSyncCompletion" /\ update \in {"Confirmed", "SignalProcessed", "L1Data"}
  \/ s = "AwaitingSafeHeadConfirmation" /\ update = "L1Data"
  \/ s = "AwaitingSignal" /\ update \in {"L1Data", "MoreDataNeeded"}

\* The state after an update; "Invalid" is InvalidTransition.
transition(s, update) ==
  IF Resumes(s, update) THEN "Deriving"
  ELSE IF Ignored(s, update) THEN s
  ELSE CASE s # "Deriving" /\ update = "SignalProcessed" -> "AwaitingUpdateAfterSignal"
         [] s = "Deriving" /\ update = "AttributesDerived" -> "AwaitingSafeHeadConfirmation"
         [] s = "Deriving" /\ update = "SignalNeeded" -> "AwaitingSignal"
         [] s = "Deriving" /\ update = "MoreDataNeeded" -> "AwaitingL1Data"
         [] OTHER -> "Invalid"

-----------------------------------------------------------------------------
(* DerivationActor *)

\* A failed write is logged and ignored.
WriteDB(new) == db' = new \/ (DbFails /\ UNCHANGED db)

Batches == {b \in Block \ {Genesis, NoBlock} : \A c \in Block \ {b} : DepositsOnly[c] # b}

\* The pipeline, at a canonical origin, reads the batch that extends the cursor.
Prepared(cursor) ==
  {b \in Batches : /\ Parent[b] = cursor /\ Canonical(origin) /\ Canonical(From[b])
                   /\ L1Number[origin] <= L1Number[From[b]]}

(* attempt_derivation in state s with finalizer queue q, after the messages    *)
(* sent: not deriving, a yield, new attributes, or a pipeline reset, which     *)
(* asks the engine for a reset and waits for its reply.                        *)
attempt_derivation(s, cursor, q, pending, sent) ==
  \/ /\ s # "Deriving" /\ state' = s
     /\ to_engine' = to_engine \o sent
     /\ awaiting_finalization' = q /\ pending_derived_from' = pending
     /\ UNCHANGED <<origin, reply, resets>>
  \/ /\ s = "Deriving" /\ state' = transition(s, "MoreDataNeeded")
     /\ to_engine' = to_engine \o sent
     /\ awaiting_finalization' = q /\ pending_derived_from' = pending
     /\ UNCHANGED <<origin, reply, resets>>
  \/ /\ s = "Deriving" /\ state' = transition(s, "AttributesDerived")
     /\ \E b \in Prepared(cursor) :
          /\ to_engine' = to_engine \o sent \o <<Attributes(b)>>
          /\ awaiting_finalization' = enqueue_for_finalization(q, L1Number[From[b]], Number[b])
          /\ pending_derived_from' = From[b] /\ origin' = From[b]
     /\ UNCHANGED <<reply, resets>>
  \/ /\ s = "Deriving" /\ state' = s
     /\ IF Canonical(origin) THEN resets < MaxResets /\ resets' = resets + 1 ELSE UNCHANGED resets
     /\ to_engine' = to_engine \o sent \o <<ResetRequest>> /\ reply' = "waiting"
     /\ awaiting_finalization' = q /\ pending_derived_from' = pending
     /\ UNCHANGED origin

\* The next request of the derivation actor, which is not waiting for a reset.
Receive(kind) ==
  /\ up /\ reply = "none" /\ to_derivation # <<>> /\ Head(to_derivation).kind = kind
  /\ to_derivation' = Tail(to_derivation)
  /\ UNCHANGED <<engineVars, l1Vars, restarts>>

reset_engine_forkchoice_returns ==
  /\ up /\ out = <<>> /\ reply \in {"served", "failed"} /\ reply' = "none"
  /\ IF reply = "failed" THEN Stop("reset") /\ UNCHANGED state
     ELSE state' = transition(transition(state, "SignalNeeded"), "MoreDataNeeded") /\ UNCHANGED <<up, fault>>
  /\ UNCHANGED <<engineVars, to_engine, to_derivation, confirmed_safe_head, pipelineVars,
                 finalized_l1_block, db, l1Vars, resets, restarts>>

\* A reset that the pipeline fails to apply is logged and still counts as processed.
ProcessReset ==
  LET s == Head(to_derivation).block
  IN /\ Receive("Reset") /\ Running
     /\ awaiting_finalization' = EmptyQueue /\ pending_derived_from' = NoL1
     /\ WriteDB(safe_head_reset(db, confirmed_safe_head))
     /\ origin' \in {Origin[s], origin}
     /\ state' = transition(state, "SignalProcessed")
     /\ UNCHANGED <<reply, to_engine, confirmed_safe_head, finalized_l1_block, resets>>

ProcessFlush ==
  /\ Receive("Flush") /\ Running
  /\ state' = transition(state, "SignalProcessed")
  /\ UNCHANGED <<reply, to_engine, confirmed_safe_head, pipelineVars, finalized_l1_block, db, resets>>

\* The Finalize request for the queue q under the finalized L1 block h, if one is due.
Finalizable(q, h) ==
  IF h = NoL1 THEN {} ELSE try_finalize_next(q, L1Number[h])
FinalizeMessages(q, h) ==
  IF Finalizable(q, h) = {} THEN <<>> ELSE <<FinalizeRequest(CHOOSE n \in Finalizable(q, h) : TRUE)>>
AfterFinalize(q, h) == IF Finalizable(q, h) = {} THEN q ELSE Retained(q, L1Number[h])

ProcessFinalizedL1Block ==
  LET h == Head(to_derivation).l1
      stale == finalized_l1_block # NoL1 /\ L1Number[h] < L1Number[finalized_l1_block]
  IN /\ Receive("FinalizedL1") /\ Running
     /\ IF stale THEN UNCHANGED <<finalized_l1_block, awaiting_finalization, to_engine>>
        ELSE /\ finalized_l1_block' = h
             /\ awaiting_finalization' = AfterFinalize(awaiting_finalization, h)
             /\ to_engine' = to_engine \o FinalizeMessages(awaiting_finalization, h)
     /\ UNCHANGED <<reply, state, confirmed_safe_head, origin, pending_derived_from, db, resets>>

ProcessL1HeadUpdate ==
  /\ Receive("L1Head") /\ Running
  /\ attempt_derivation(transition(state, "L1Data"), confirmed_safe_head,
                        awaiting_finalization, pending_derived_from, <<>>)
  /\ UNCHANGED <<confirmed_safe_head, finalized_l1_block, db>>

ProcessEngineSafeHeadUpdate ==
  LET b == Head(to_derivation).block
      l1_block == IF pending_derived_from = NoL1 THEN Origin[b] ELSE pending_derived_from
      s == transition(state, "Confirmed")
      q == awaiting_finalization
  IN /\ Receive("SafeHead")
     /\ WriteDB(safe_head_updated(db, b, l1_block))
     /\ IF s = "Invalid"
          THEN /\ Stop("transition") /\ pending_derived_from' = NoL1
               /\ UNCHANGED <<reply, to_engine, state, confirmed_safe_head, awaiting_finalization,
                              origin, resets>>
          ELSE /\ UNCHANGED <<up, fault>> /\ confirmed_safe_head' = b
               /\ attempt_derivation(s, b, AfterFinalize(q, finalized_l1_block), NoL1,
                                     FinalizeMessages(q, finalized_l1_block))
     /\ UNCHANGED finalized_l1_block

ProcessEngineSyncCompletion ==
  LET b == Head(to_derivation).block
  IN /\ Receive("SyncCompleted") /\ Running
     /\ WriteDB(safe_head_reset(db, b))
     /\ confirmed_safe_head' = b
     /\ attempt_derivation(transition(state, "ELSyncCompleted"), b, awaiting_finalization,
                           pending_derived_from, <<>>)
     /\ UNCHANGED finalized_l1_block

-----------------------------------------------------------------------------
(* The engine actor, by the promise of module Engine *)

derivationVars == <<state, confirmed_safe_head, pipelineVars, finalized_l1_block, db>>

\* Variant: only a safe head that advances is sent.
SafeHeadIfAdvanced(s) == IF Number[s] <= Number[last_safe_head_sent] THEN <<>> ELSE <<SafeHead(s)>>

SafeHeadIfUpdated(s) == IF s = last_safe_head_sent THEN <<>> ELSE <<SafeHead(s)>>

(* find_starting_forkchoice: the EL's safe label, or, when an L1 reorg         *)
(* orphaned its epoch, a block below it with a canonical epoch.                *)
ResetHeads ==
  IF Canonical(Origin[label]) THEN {label}
  ELSE {s \in Ancestors[label] : Canonical(Origin[s]) /\ final_label \in Ancestors[s]}

\* The engine may take a request or a step: it is not in the middle of another.
EngineFree == Running /\ out = <<>> /\ reply \in {"none", "waiting"}

\* A forkchoice update with the safe head s and the finalized head f: VALID, or Syncing.
ForkchoiceValid(s, f) == label' = s /\ final_label' = f
ForkchoiceSyncing == ELSyncing /\ UNCHANGED <<label, final_label>>

\* The end of a drain: after the signals of the last task, the safe head if it changed.
EndDrain(signals) ==
  /\ drain' = "idle" /\ last_safe_head_sent' = safe'
  /\ out' = signals \o SafeHeadIfUpdated(safe')

(* EngineProcessor::reset, which clears the task queue and takes its heads from *)
(* the EL; the one that ends EL sync is followed by its notification.          *)
EngineReset(completion) ==
  /\ safe' \in ResetHeads /\ finalized' = final_label
  /\ \/ ForkchoiceValid(safe', final_label)
     \/ (el_sync_complete \/ completion) /\ ForkchoiceSyncing
  /\ tasks' = <<>> /\ drain' = "idle" /\ unmoved' = FALSE
  /\ last_safe_head_sent' = safe'
  /\ out' = <<ResetSignal(safe')>> \o SafeHeadIfUpdated(safe')
            \o IF completion THEN <<SyncCompleted(safe')>> ELSE <<>>

SendToDerivation ==
  /\ Running /\ out # <<>>
  /\ out' = Tail(out) /\ to_derivation' = Append(to_derivation, Head(out))
  /\ UNCHANGED <<headVars, tasks, drain, unmoved, last_safe_head_sent, el_sync_complete, reply,
                 to_engine, derivationVars, l1Vars, resets, restarts>>

\* Consolidation comes before finalization; tasks of one kind stay in order.
Enqueue(q, t) ==
  LET Ahead(s) == t.kind = "Finalize" \/ s.kind = "Attributes"
  IN SelectSeq(q, Ahead) \o <<t>> \o SelectSeq(q, LAMBDA s : ~Ahead(s))

\* The queue of the running drain, or of the one that the next request starts.
Pending == IF drain = "running" THEN tasks ELSE Enqueue(tasks, Head(to_engine))
Current == Head(Pending)

(* The engine executes the first task of a drain.  Only a request starts a      *)
(* drain: a task that an earlier one left in the queue waits for the next.      *)
Execute(kind) ==
  /\ up /\ out = <<>> /\ reply \in {"none", "waiting"}
  /\ \/ drain = "running" /\ UNCHANGED to_engine
     \/ /\ drain = "idle" /\ to_engine # <<>> /\ Head(to_engine).kind # "Reset"
        /\ to_engine' = Tail(to_engine)
  /\ Current.kind = kind
  /\ UNCHANGED <<reply, el_sync_complete, to_derivation, derivationVars, l1Vars, restarts>>

\* The task is done and popped; the drain goes on with the next one.
TaskDone ==
  /\ tasks' = Tail(Pending)
  /\ IF Tail(Pending) = <<>> THEN EndDrain(<<>>)
     ELSE drain' = "running" /\ UNCHANGED <<last_safe_head_sent, out>>

\* Attributes the EL's chain or its forkchoice labels agree with.
Applicable(b) == b \in Ancestors[safe] \/ safe \in Ancestors[Parent[b]]

(* Consolidated, reconciled, or built and inserted.  Within a span batch, and   *)
(* when the head is already there, no forkchoice update is sent.                *)
ConfirmAttributes ==
  LET b == Current.block
  IN /\ Execute("Attributes") /\ Running
     /\ DepositsOnly[b] = b /\ Applicable(b)
     /\ safe' = b /\ unmoved' = FALSE /\ TaskDone
     /\ \/ b # safe /\ ForkchoiceValid(b, finalized)
        \/ UNCHANGED <<label, final_label>>
     /\ UNCHANGED <<finalized, resets>>

(* The forkchoice update is answered Syncing and the update of the safe head is *)
(* filtered out: consolidate and insert succeed, and nobody is told.            *)
LoseAttributes ==
  LET b == Current.block
  IN /\ Execute("Attributes") /\ Running
     /\ b # safe /\ Applicable(b) /\ ForkchoiceSyncing
     /\ unmoved' = TRUE /\ UNCHANGED safe /\ TaskDone
     /\ UNCHANGED <<finalized, resets>>

(* reconcile_to_safe_head is answered Syncing: ForkchoiceUpdateDidNotApply, a   *)
(* Deferred error.  The task stays queued and the drain ends; a safe head below *)
(* the unsafe head has moved all the same.                                      *)
DeferAttributes ==
  LET b == Current.block
  IN /\ Execute("Attributes") /\ Running
     /\ b # safe /\ Applicable(b) /\ ForkchoiceSyncing
     /\ safe' \in {safe} \cup (Ancestors[safe] \cap {b})
     /\ tasks' = Pending /\ unmoved' = FALSE /\ EndDrain(<<>>)
     /\ UNCHANGED <<finalized, resets>>

(* The payload is invalid.  Its build is refused; or its deposits-only          *)
(* replacement is inserted, and becomes safe unless a Syncing answer hides it.  *)
(* The flush goes out first, the new safe head at the end of the drain.  Tasks  *)
(* behind the flushed one wait for the next drain.                              *)
FlushAttributes ==
  LET b == Current.block
      d == DepositsOnly[b]
  IN /\ Execute("Attributes") /\ Running
     /\ d # b /\ safe \in Ancestors[Parent[b]]
     /\ \/ safe' = d /\ (ForkchoiceValid(d, finalized) \/ ForkchoiceSyncing)
        \/ UNCHANGED <<safe, label, final_label>>
     /\ tasks' = Tail(Pending) /\ unmoved' = FALSE /\ EndDrain(<<FlushChannel>>)
     /\ UNCHANGED <<finalized, resets>>

\* A task fails with a Reset error, always when attributes are on another fork.
ResetOnTask ==
  \E kind \in {"Attributes", "Finalize"} :
    /\ Execute(kind) /\ Running
    /\ IF kind = "Finalize" \/ Applicable(Current.block)
         THEN resets < MaxResets /\ resets' = resets + 1 ELSE UNCHANGED resets
    /\ EngineReset(FALSE)

(* A block below the finalized head is skipped, one above the safe head is a    *)
(* Critical error.  The forkchoice update carries the safe head as well.        *)
ServeFinalize ==
  LET n == Current.number
      target == {b \in Ancestors[safe] : Number[b] = n}
  IN /\ Execute("Finalize") /\ UNCHANGED <<safe, unmoved, resets>>
     /\ IF Number[safe] < n /\ n >= Number[finalized]
          THEN Stop("BlockNotSafe") /\ UNCHANGED <<finalized, label, final_label, tasks, drain,
                                                  last_safe_head_sent, out>>
          ELSE /\ UNCHANGED <<up, fault>> /\ TaskDone
               /\ IF n < Number[finalized] \/ target = {finalized}
                    THEN UNCHANGED <<finalized, label, final_label>>
                    ELSE /\ finalized' \in target
                         /\ ForkchoiceValid(safe, finalized') \/ ForkchoiceSyncing

ServeReset ==
  /\ EngineFree /\ drain = "idle" /\ to_engine # <<>> /\ Head(to_engine).kind = "Reset"
  /\ to_engine' = Tail(to_engine)
  /\ \/ el_sync_complete /\ reply' = "served" /\ EngineReset(FALSE)
     \/ /\ reply' = "failed" /\ tasks' = <<>>
        /\ UNCHANGED <<headVars, drain, unmoved, last_safe_head_sent, out>>
  /\ UNCHANGED <<el_sync_complete, to_derivation, derivationVars, l1Vars, resets, restarts>>

\* A request of another actor, such as a gossiped payload, drains the queue once more.
OtherRequest ==
  /\ EngineFree /\ drain = "idle" /\ tasks # <<>> /\ drain' = "running"
  /\ UNCHANGED <<headVars, tasks, unmoved, last_safe_head_sent, el_sync_complete, out, reply,
                 to_engine, to_derivation, derivationVars, l1Vars, resets, restarts>>

\* A reset of the engine's own, after the failed insert of such a request.
InternalReset ==
  /\ EngineFree /\ drain = "idle"
  /\ resets < MaxResets /\ resets' = resets + 1
  /\ EngineReset(FALSE)
  /\ UNCHANGED <<el_sync_complete, reply, to_engine, to_derivation, derivationVars, l1Vars, restarts>>

\* A task whose errors stay temporary is retried in place: no other request is served.
Starve ==
  /\ EngineFree /\ Starving /\ drain = "idle" /\ drain' = "stuck"
  /\ UNCHANGED <<headVars, tasks, unmoved, last_safe_head_sent, el_sync_complete, out, reply,
                 to_engine, to_derivation, derivationVars, l1Vars, resets, restarts>>

\* After the first VALID forkchoice of the process; the heads are known if it was a reset's.
MarkELSyncComplete ==
  /\ EngineFree /\ drain = "idle" /\ ~el_sync_complete /\ el_sync_complete' = TRUE
  /\ IF finalized = NoBlock THEN EngineReset(TRUE)
     ELSE /\ out' = <<SyncCompleted(safe)>>
          /\ UNCHANGED <<headVars, tasks, drain, unmoved, last_safe_head_sent>>
  /\ UNCHANGED <<reply, to_engine, to_derivation, derivationVars, l1Vars, resets, restarts>>

-----------------------------------------------------------------------------
(* L1, its watcher, and restarts *)

nodeVars == <<engineVars, reply, derivationVars>>

L1NewHead ==
  /\ \E h \in L1Block :
       /\ h \notin L1Ancestors[l1_head] /\ l1_finalized \in L1Ancestors[h]
       /\ IF l1_head \in L1Ancestors[h] THEN UNCHANGED reorgs
          ELSE reorgs < MaxReorgs /\ reorgs' = reorgs + 1
       /\ l1_head' = h
  /\ UNCHANGED <<up, fault, nodeVars, to_engine, to_derivation, l1_finalized, head_sent,
                 finalized_sent, resets, restarts>>

L1Finalizes ==
  /\ \E h \in L1Ancestors[l1_head] : L1Number[l1_finalized] < L1Number[h] /\ l1_finalized' = h
  /\ UNCHANGED <<up, fault, nodeVars, to_engine, to_derivation, l1_head, head_sent,
                 finalized_sent, resets, restarts, reorgs>>

WatchHead ==
  /\ Running /\ head_sent # l1_head /\ head_sent' = l1_head
  /\ to_derivation' = Append(to_derivation, L1Head)
  /\ UNCHANGED <<nodeVars, to_engine, l1_head, l1_finalized, finalized_sent, resets, restarts, reorgs>>

WatchFinalized ==
  /\ Running /\ finalized_sent # l1_finalized /\ finalized_sent' = l1_finalized
  /\ to_derivation' = Append(to_derivation, FinalizedL1(l1_finalized))
  /\ UNCHANGED <<nodeVars, to_engine, l1_head, l1_finalized, head_sent, resets, restarts, reorgs>>

\* The EL's labels, the database and L1 outlive the process.
Restart ==
  /\ restarts < MaxRestarts /\ restarts' = restarts + 1
  /\ up' = TRUE /\ fault' = "none"
  /\ safe' = NoBlock /\ finalized' = NoBlock /\ tasks' = <<>> /\ drain' = "idle" /\ unmoved' = FALSE
  /\ last_safe_head_sent' = NoBlock /\ el_sync_complete' = FALSE
  /\ out' = <<>> /\ reply' = "none" /\ to_engine' = <<>> /\ to_derivation' = <<>>
  /\ state' = "AwaitingELSyncCompletion" /\ confirmed_safe_head' = NoBlock
  /\ pending_derived_from' = NoL1 /\ awaiting_finalization' = EmptyQueue
  /\ finalized_l1_block' = NoL1 /\ origin' = L1Genesis
  /\ head_sent' = NoL1 /\ finalized_sent' = NoL1
  /\ UNCHANGED <<label, final_label, db, l1_head, l1_finalized, resets, reorgs>>

-----------------------------------------------------------------------------
Init ==
  /\ up = TRUE /\ fault = "none"
  /\ safe = NoBlock /\ finalized = NoBlock /\ label = Genesis /\ final_label = Genesis
  /\ tasks = <<>> /\ drain = "idle" /\ unmoved = FALSE
  /\ last_safe_head_sent = NoBlock /\ el_sync_complete = FALSE /\ out = <<>> /\ reply = "none"
  /\ to_engine = <<>> /\ to_derivation = <<>>
  /\ state = "AwaitingELSyncCompletion" /\ confirmed_safe_head = NoBlock
  /\ pending_derived_from = NoL1 /\ awaiting_finalization = EmptyQueue
  /\ finalized_l1_block = NoL1 /\ origin = L1Genesis /\ db = EmptyDB
  /\ l1_head = L1Genesis /\ l1_finalized = L1Genesis /\ head_sent = NoL1 /\ finalized_sent = NoL1
  /\ resets = 0 /\ restarts = 0 /\ reorgs = 0

EngineActor ==
  \/ SendToDerivation \/ ConfirmAttributes \/ LoseAttributes \/ DeferAttributes
  \/ FlushAttributes \/ ResetOnTask \/ ServeFinalize \/ ServeReset

DerivationActor ==
  \/ reset_engine_forkchoice_returns \/ ProcessReset \/ ProcessFlush \/ ProcessFinalizedL1Block
  \/ ProcessL1HeadUpdate \/ ProcessEngineSafeHeadUpdate \/ ProcessEngineSyncCompletion

L1Watcher == WatchHead \/ WatchFinalized

Next ==
  \/ EngineActor \/ DerivationActor \/ L1Watcher
  \/ MarkELSyncComplete \/ InternalReset \/ OtherRequest \/ Starve
  \/ L1NewHead \/ L1Finalizes \/ Restart

Spec == Init /\ [][Next]_vars

\* The two actors are scheduled.  Nothing is assumed of L1, of the EL or of other requests.
FairSpec == Spec /\ WF_vars(EngineActor) /\ WF_vars(DerivationActor)

-----------------------------------------------------------------------------
(* Every variable has the type the code gives it. *)
TypeOK ==
  /\ up \in BOOLEAN /\ fault \in {"none", "transition", "reset", "BlockNotSafe"}
  /\ {safe, label, finalized, final_label, last_safe_head_sent, confirmed_safe_head} \subseteq Block
  /\ drain \in {"idle", "running", "stuck"} /\ unmoved \in BOOLEAN
  /\ tasks \in Seq(EngineRequest \ {ResetRequest}) /\ (drain = "running" => tasks # <<>>)
  /\ el_sync_complete \in BOOLEAN /\ reply \in {"none", "waiting", "served", "failed"}
  /\ out \in Seq(DerivationRequest) /\ to_derivation \in Seq(DerivationRequest)
  /\ to_engine \in Seq(EngineRequest) /\ state \in State
  /\ {pending_derived_from, finalized_l1_block, head_sent, finalized_sent} \subseteq L1Block \cup {NoL1}
  /\ {origin, l1_head, l1_finalized} \subseteq L1Block
  /\ IsQueue(awaiting_finalization) /\ IsDB(db) /\ {resets, restarts, reorgs} \subseteq Nat

(* Derivation starts only once the engine is synced: until then it sends no    *)
(* attributes, no finalization and no reset request, so none is refused.       *)
DerivationAfterSync ==
  to_engine # <<>> \/ state # "AwaitingELSyncCompletion" => el_sync_complete

(* What is finalized on L2 was derived from finalized L1 data: the inputs of   *)
(* the engine's finalized head, and of the EL's label, are in the finalized L1 *)
(* chain, through resets that clear the finalizer, re-derivation, and restarts. *)
FinalizedInputsFinal ==
  \A b \in {finalized, final_label} \ {NoBlock, Genesis} : From[b] \in L1Ancestors[l1_finalized]

(* The state machine is only given updates that it accepts.                    *)
NoInvalidTransition == fault # "transition"

(* The finalizer asks only for blocks that are safe by the time it is served.  *)
FinalizeOnlySafe == fault # "BlockNotSafe"

(* When nothing is on its way, derivation works from the engine's safe head,   *)
(* whatever resets, flushes and stale confirmations came before: no change of  *)
(* the safe head is withheld by the comparison with last_safe_head_sent.       *)
ConfirmedIsSafe ==
  up /\ el_sync_complete /\ drain # "running" /\ out = <<>> /\ to_derivation = <<>>
    => confirmed_safe_head = safe

(* A pipeline reset leaves nothing above the reset's safe head in the safe     *)
(* head database, as safe_head_reset promises.                                 *)
ResetTruncates ==
  [][\A s \in Block : ProcessReset /\ Head(to_derivation) = ResetSignal(s)
       => \A k \in DOMAIN db' : Number[db'[k]] <= Number[s]]_vars

\* What may keep the attributes of a wait from an answer: see ConfirmationArrives.
Deferred == drain = "idle" /\ tasks # <<>>
Stalled == Deferred \/ drain = "stuck" \/ unmoved

(* Derivation does not wait forever for a confirmation: the safe head comes,   *)
(* or a signal, also when the engine dropped the attributes in a reset, flushed *)
(* them, or had them as its safe head already.  The code has three exceptions: *)
(* a task left in the queue waits for a request that nobody need send, a task  *)
(* may be retried forever, and attributes whose forkchoice update was answered *)
(* Syncing can leave the queue without a new safe head and without a signal.   *)
ConfirmationArrives ==
  state = "AwaitingSafeHeadConfirmation"
    ~> (state # "AwaitingSafeHeadConfirmation" \/ ~up \/ Stalled)
=============================================================================
