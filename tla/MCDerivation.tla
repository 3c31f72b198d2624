---------------------------- MODULE MCDerivation ----------------------------
(* Small L1 and L2 trees for module Derivation.                              *)
EXTENDS Derivation, TLC

CONSTANTS L1Absent, L2Absent

(* L1: x0 - x1 - x2 - x3 with the fork x1 - y2.  L2: g - a1 - a2 - a3; the     *)
(* batch of b2 is on the fork; v2 is what is left of a2 if its batch is        *)
(* invalid.  Without x2 both batches are read at x1.                           *)
MCL1Block == {"x0", "x1", "x2", "x3", "y2"} \ L1Absent
MCL1Number == [h \in MCL1Block |-> CASE h = "x0" -> 0 [] h = "x1" -> 1 [] h = "x3" -> 3 [] OTHER -> 2]
MCL1Ancestors == [h \in MCL1Block |->
  CASE h = "x0" -> {"x0"} [] h = "x1" -> {"x0", "x1"} [] h = "x2" -> {"x0", "x1", "x2"}
    [] h = "x3" -> {"x0", "x1", "x2", "x3"} [] h = "y2" -> {"x0", "x1", "y2"}]

MCBlock == {"none", "g", "a1", "a2", "a3", "b2", "v2"} \ L2Absent
MCNumber == [b \in MCBlock |-> CASE b \in {"none", "g"} -> 0 [] b = "a1" -> 1 [] b = "a3" -> 3 [] OTHER -> 2]
MCParent == [b \in MCBlock |-> CASE b \in {"none", "g", "a1"} -> IF b = "a1" THEN "g" ELSE b
                                 [] b = "a3" -> "a2" [] OTHER -> "a1"]
MCAncestors == [b \in MCBlock |->
  CASE b = "none" -> {"none"} [] b = "g" -> {"g"} [] b = "a1" -> {"g", "a1"}
    [] b = "a3" -> {"g", "a1", "a2", "a3"} [] OTHER -> {"g", "a1", b}]
MCOrigin == [b \in MCBlock |-> CASE b \in {"none", "g", "a1"} -> "x0" [] OTHER -> "x1"]
MCFrom == [b \in MCBlock |-> CASE b \in {"none", "g"} -> "x0" [] b = "a1" -> "x1"
                               [] b = "b2" -> "y2" [] b = "a3" -> "x3"
                               [] OTHER -> IF "x2" \in MCL1Block THEN "x2" ELSE "x1"]
MCDepositsOnly == [b \in MCBlock |-> IF b = "a2" /\ "v2" \in MCBlock THEN "v2" ELSE b]
=============================================================================
