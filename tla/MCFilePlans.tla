----------------------------- MODULE MCFilePlans -----------------------------
(* Model-checking instances of FilePlans: names "a" and "b" in the folder, a  *)
(* directory "d" and a name inside it.                                        *)
EXTENDS FilePlans, TLC

CONSTANTS plan1, plan2, red, blue, green

MCPaths  == {"a", "b", "d", "d/a"}
MCParent == [p \in Paths |-> IF p = "d/a" THEN "d" ELSE "."]
Nested   == [p \in Paths |-> CASE p = "d/a" -> red [] p = "d" -> Dir [] OTHER -> Nothing]
TwoFiles == [p \in Paths |-> CASE p = "a" -> red [] p = "b" -> blue [] OTHER -> Nothing]
Apart    == [pl \in Plans |-> pl]
=============================================================================
