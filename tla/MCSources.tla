------------------------------ MODULE MCSources ------------------------------
(* Model-checking instances of Sources.                                       *)
EXTENDS Sources, TLC

CONSTANTS c1, c2

(* Edits of the code; the manifests stay as they are.                        *)
CodeEdits == {e \in Content \X Content : e[1].packs = e[2].packs}
=============================================================================
