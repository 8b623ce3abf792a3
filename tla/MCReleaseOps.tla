----------------------------- MODULE MCReleaseOps -----------------------------
(* Model-checking instances of ReleaseOps.                                    *)
EXTENDS ReleaseOps, TLC

CONSTANTS r1, r2

MCMigrations == {<<"001", "a">>, <<"002", "b">>}
MCNeeds == r1 :> {<<"001", "a">>} @@ r2 :> MCMigrations
=============================================================================
