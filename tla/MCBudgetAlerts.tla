--------------------------- MODULE MCBudgetAlerts ---------------------------
(***************************************************************************)
(* BudgetAlerts on a small instance: a tenant-wide monthly budget and a    *)
(* daily one of a workspace, months of three days, two thresholds.         *)
(***************************************************************************)
EXTENDS BudgetAlerts, TLC

CONSTANTS w1, w2, month, day

MCScope  == month :> TenantScope @@ day :> "workspace"
MCLength == month :> 3 @@ day :> 1

WorkerSymmetry == Permutations({w1, w2})
=============================================================================
