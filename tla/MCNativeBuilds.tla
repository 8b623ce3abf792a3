---------------------------- MODULE MCNativeBuilds ----------------------------
(* Model-checking instances of NativeBuilds.                                  *)
EXTENDS NativeBuilds, TLC

MCAvailable == {"apk", "aab"}
Symmetry    == Permutations(Builds) \cup Permutations(Codes)
=============================================================================
