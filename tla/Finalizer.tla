----------------------------- MODULE Finalizer ------------------------------
(***************************************************************************)
(* L2Finalizer (consensus/service, actors/derivation/finalizer.rs): a map    *)
(* from L1 block numbers to the highest L2 block number derived there, from   *)
(* which a finalized L1 block picks the L2 block to finalize.                 *)
(***************************************************************************)
EXTENDS Naturals

EmptyQueue == [k \in {} |-> 0]

IsQueue(q) == DOMAIN q \subseteq Nat /\ q = [k \in DOMAIN q |-> q[k]] /\ \A k \in DOMAIN q : q[k] \in Nat

enqueue_for_finalization(q, l1, n) ==
  [k \in DOMAIN q \cup {l1} |->
     IF k # l1 THEN q[k] ELSE IF l1 \in DOMAIN q /\ n < q[l1] THEN q[l1] ELSE n]

\* Variant: the range reaches one block too far.
ReadyOneTooFar(q, l1) == {k \in DOMAIN q : k <= l1 + 1}

\* The keys at or below the finalized L1 number, and the last of them.
Ready(q, l1) == {k \in DOMAIN q : k <= l1}
HighestReady(q, l1) == {k \in Ready(q, l1) : \A j \in Ready(q, l1) : j <= k}

\* What try_finalize_next returns (a set of at most one L2 number) and leaves queued.
try_finalize_next(q, l1) == {q[k] : k \in HighestReady(q, l1)}
Retained(q, l1) == [k \in DOMAIN q \ Ready(q, l1) |-> q[k]]
=============================================================================
