------------------------------ MODULE MCGithubOp ------------------------------
(* Model-checking instance of GithubOp: two honest workflows, the         *)
(* attacker's workflow a, and one other service audience.                *)
EXTENDS GithubOp
CONSTANTS u1, u2, a, sigstore
=============================================================================
