--------------------------- MODULE MCTenantVault ---------------------------
(***************************************************************************)
(* TenantVault on a small instance: one user, two processes.  The first    *)
(* backfill touches no key, and Google's two secrets are one more pair of  *)
(* seals: each is asked for in behaviours of its own.                      *)
(***************************************************************************)
EXTENDS TenantVault, TLC

CONSTANTS u1, p1, p2

MCAgendas == {{"compliance", "vendor", "content", "shred", "sessions"},
              {"compliance", "google", "shred"},
              {"backfill"}}

VaultSymmetry == Permutations({p1, p2})
=============================================================================
