---------------------------- MODULE SafeDBProofs ----------------------------
(* What the operations of the safe head database promise for every content   *)
(* of the database, monotone in the L2 numbers or not.                       *)
EXTENDS SafeDB, TLAPS

(* Writing one entry, as table.insert does, gives a database again, with the   *)
(* new entry at its key and every other entry as it was.                       *)
LEMMA InsertEntry ==
  ASSUME NEW db, IsDB(db), NEW key \in Nat, NEW b \in Block
  PROVE  /\ IsDB(Insert(db, key, b))
         /\ DOMAIN Insert(db, key, b) = DOMAIN db \cup {key}
         /\ Insert(db, key, b)[key] = b
         /\ \A k \in DOMAIN db : k # key => Insert(db, key, b)[k] = db[k]
  BY DEF IsDB, Insert

(* The part of the database that safe_head_reset leaves before it re-anchors   *)
(* holds entries of the old database, none at or after the first one that is   *)
(* at or above the reset head.                                                 *)
LEMMA KeptPart ==
  ASSUME NEW db, IsDB(db), NEW b \in Block
  PROVE  LET part == [k \in Kept(db, b) |-> db[k]]
         IN /\ IsDB(part) /\ DOMAIN part \subseteq DOMAIN db
            /\ \A k \in DOMAIN part : part[k] = db[k] /\ k \notin AtOrAbove(db, b)
  <1> DEFINE part == [k \in Kept(db, b) |-> db[k]]
  <1>1. DOMAIN part \subseteq DOMAIN db /\ \A k \in DOMAIN part : part[k] = db[k]
    BY DEF Kept
  <1>2. IsDB(part)
    BY <1>1 DEF IsDB
  <1>3. \A k \in DOMAIN part : k \notin AtOrAbove(db, b)
    BY DEF Kept, AtOrAbove, IsDB
  <1> QED BY <1>1, <1>2, <1>3

(* safe_head_reset writes a well-formed database.                              *)
THEOREM ResetIsDB ==
  ASSUME NEW db, IsDB(db), NEW b \in Block
  PROVE  IsDB(safe_head_reset(db, b))
  <1>1. L1Number[Origin[b]] \in Nat
    BY SafeDBAssumption
  <1> QED BY <1>1, KeptPart, InsertEntry DEF safe_head_reset

(* After safe_head_reset no entry at or after the epoch of the reset head is   *)
(* above it, even when the entries were not in order before: the scan for the  *)
(* first entry to delete misses none.                                          *)
THEOREM ResetTruncatesFromEpoch ==
  ASSUME NEW db, IsDB(db), NEW b \in Block
  PROVE  \A k \in DOMAIN safe_head_reset(db, b) :
           L1Number[Origin[b]] <= k => Number[safe_head_reset(db, b)[k]] <= Number[b]
  <1> DEFINE o == L1Number[Origin[b]]
             part == [k \in Kept(db, b) |-> db[k]]
             r == safe_head_reset(db, b)
  <1>1. o \in Nat /\ Number[b] \in Nat /\ \A k \in DOMAIN db : k \in Nat /\ Number[db[k]] \in Nat
    BY SafeDBAssumption DEF IsDB
  <1>2. \A k \in DOMAIN db : o <= k /\ k \notin AtOrAbove(db, b) => Number[db[k]] <= Number[b]
    BY <1>1 DEF AtOrAbove
  <1> SUFFICES ASSUME NEW k \in DOMAIN r, o <= k PROVE Number[r[k]] <= Number[b]
    OBVIOUS
  <1>3. CASE AtOrAbove(db, b) = {}
    BY <1>2, <1>3 DEF safe_head_reset
  <1>4. CASE AtOrAbove(db, b) # {}
    <2>1. r = Insert(part, o, b)
      BY <1>4 DEF safe_head_reset
    <2>2. IsDB(part) /\ DOMAIN part \subseteq DOMAIN db
          /\ \A j \in DOMAIN part : part[j] = db[j] /\ j \notin AtOrAbove(db, b)
      BY KeptPart
    <2>3. /\ DOMAIN Insert(part, o, b) = DOMAIN part \cup {o} /\ Insert(part, o, b)[o] = b
          /\ \A j \in DOMAIN part : j # o => Insert(part, o, b)[j] = part[j]
      BY DEF Insert
    <2>4. CASE k = o
      <3>1. Number[r[k]] = Number[b]
        BY <2>1, <2>3, <2>4
      <3> QED BY <3>1, <1>1
    <2>5. CASE k # o
      <3>1. k \in DOMAIN part /\ r[k] = db[k] /\ k \in DOMAIN db /\ k \notin AtOrAbove(db, b)
        BY <2>1, <2>2, <2>3, <2>5
      <3> HIDE DEF r, part
      <3> QED BY <3>1, <1>2
    <2> QED BY <2>4, <2>5
  <1> QED BY <1>3, <1>4

(* safe_head_reset leaves the entries before the epoch of the reset head as    *)
(* they are.                                                                   *)
THEOREM ResetKeepsBeforeEpoch ==
  ASSUME NEW db, IsDB(db), NEW b \in Block
  PROVE  \A k \in DOMAIN db : k < L1Number[Origin[b]] =>
           k \in DOMAIN safe_head_reset(db, b) /\ safe_head_reset(db, b)[k] = db[k]
  <1> DEFINE o == L1Number[Origin[b]]
             part == [j \in Kept(db, b) |-> db[j]]
             r == safe_head_reset(db, b)
  <1>1. o \in Nat /\ \A k \in DOMAIN db : k \in Nat
    BY SafeDBAssumption DEF IsDB
  <1> SUFFICES ASSUME NEW k \in DOMAIN db, k < o PROVE k \in DOMAIN r /\ r[k] = db[k]
    OBVIOUS
  <1>2. k \in Kept(db, b)
    BY <1>1 DEF Kept, AtOrAbove
  <1>3. CASE AtOrAbove(db, b) = {}
    BY <1>3 DEF safe_head_reset
  <1>4. CASE AtOrAbove(db, b) # {}
    <2>1. r = Insert(part, o, b)
      BY <1>4 DEF safe_head_reset
    <2>2. k # o /\ k \in DOMAIN part /\ part[k] = db[k]
      BY <1>1, <1>2
    <2>3. k \in DOMAIN Insert(part, o, b) /\ Insert(part, o, b)[k] = part[k]
      BY <2>2 DEF Insert
    <2> QED BY <2>1, <2>2, <2>3
  <1> QED BY <1>3, <1>4

(* What the RPC reads: after a reset that truncated, safe_head_at_l1 at any L1 *)
(* block from the epoch of the reset head on answers with no L2 block above    *)
(* the reset head.                                                             *)
THEOREM AnswerAfterReset ==
  ASSUME NEW db, IsDB(db), NEW b \in Block, AtOrAbove(db, b) # {},
         NEW n \in Nat, L1Number[Origin[b]] <= n,
         NEW k \in safe_head_at_l1(safe_head_reset(db, b), n)
  PROVE  Number[safe_head_reset(db, b)[k]] <= Number[b]
  <1>1. L1Number[Origin[b]] \in DOMAIN safe_head_reset(db, b)
    BY DEF safe_head_reset, Insert
  <1>2. k \in DOMAIN safe_head_reset(db, b) /\ L1Number[Origin[b]] <= k
    BY <1>1 DEF safe_head_at_l1
  <1> QED BY <1>2, ResetTruncatesFromEpoch
=============================================================================
