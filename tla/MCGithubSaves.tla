---------------------------- MODULE MCGithubSaves ----------------------------
(* Model-checking instances of GithubSaves: the file GitHub creates and one   *)
(* of the application, with two contents that can be exchanged.               *)
EXTENDS GithubSaves, TLC

CONSTANTS v, w

Symmetry == Permutations({v, w})
=============================================================================
