------------------------------- MODULE SafeDB -------------------------------
(***************************************************************************)
(* The safe head database (crate consensus/safedb): a persistent map from   *)
(* L1 block numbers to the L2 safe head derived once that L1 block was       *)
(* processed.  Each operation is one write transaction, so it is an operator *)
(* from the stored map to the next one.                                      *)
(*                                                                           *)
(* The map db is a function from a set of L1 numbers to L2 blocks.  The L1   *)
(* hash stored beside the L2 block repeats the key's block and is left out.  *)
(***************************************************************************)
EXTENDS Naturals

CONSTANTS
  Block,      \* the L2 blocks
  Number,     \* L2 block -> its number
  L1Block,    \* the L1 blocks
  L1Number,   \* L1 block -> its number
  Origin      \* L2 block -> the L1 block of its epoch

ASSUME SafeDBAssumption ==
  /\ Number \in [Block -> Nat] /\ L1Number \in [L1Block -> Nat] /\ Origin \in [Block -> L1Block]

IsDB(db) == DOMAIN db \subseteq Nat /\ db = [k \in DOMAIN db |-> db[k]] /\ \A k \in DOMAIN db : db[k] \in Block

EmptyDB == [k \in {} |-> 0]

\* table.insert(key, value)
Insert(db, key, b) == [k \in DOMAIN db \cup {key} |-> IF k = key THEN b ELSE db[k]]

safe_head_updated(db, b, l1) == Insert(db, L1Number[l1], b)

(* The entries from the reset head's epoch on that are at or above it.  The    *)
(* scan stops at the first one and everything after it is deleted too.         *)
AtOrAbove(db, b) == {k \in DOMAIN db : L1Number[Origin[b]] <= k /\ Number[b] <= Number[db[k]]}

Kept(db, b) == {k \in DOMAIN db : \A j \in AtOrAbove(db, b) : k < j}

safe_head_reset(db, b) ==
  IF AtOrAbove(db, b) = {} THEN db
  ELSE Insert([k \in Kept(db, b) |-> db[k]], L1Number[Origin[b]], b)

\* The key safe_head_at_l1 answers from: the highest at or before n; none is NotFound.
safe_head_at_l1(db, n) == {k \in DOMAIN db : k <= n /\ \A j \in DOMAIN db : j <= n => j <= k}
=============================================================================
