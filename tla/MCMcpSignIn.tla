---------------------------- MODULE MCMcpSignIn ----------------------------
(***************************************************************************)
(* McpSignIn on a small instance: two clients, two attempts, one user.     *)
(***************************************************************************)
EXTENDS McpSignIn, TLC

CONSTANTS c1, c2, u1, a1, a2

SignInSymmetry == Permutations({c1, c2}) \union Permutations({a1, a2})
=============================================================================
