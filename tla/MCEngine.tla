------------------------------ MODULE MCEngine ------------------------------
(* A small instance of Engine: two forks above genesis. *)
EXTENDS Engine

CONSTANTS g, a1, a2, a3, b1, b2, none,
          Absent   \* the blocks of the tree this run leaves out

MCBlock == {g, a1, a2, a3, b1, b2} \ Absent
MCNumber == [b \in MCBlock |-> CASE b = g -> 0 [] b \in {a1, b1} -> 1
                                     [] b \in {a2, b2} -> 2 [] OTHER -> 3]
MCParent == [b \in MCBlock |-> CASE b = a2 -> a1 [] b = a3 -> a2 [] b = b2 -> b1 [] OTHER -> g]
MCAncestors[b \in MCBlock] == IF b = g THEN {g} ELSE {b} \cup MCAncestors[MCParent[b]]
MCDepositsOnly == [b \in MCBlock |-> IF b = b1 THEN a1 ELSE b]
=============================================================================
