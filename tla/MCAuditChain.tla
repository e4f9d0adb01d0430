---------------------------- MODULE MCAuditChain ----------------------------
(***************************************************************************)
(* AuditChain on a small instance: two workers race for the chains of two  *)
(* tenants.  One key is offered twice with different contents (a provider  *)
(* that restates a bucket), and one is used by both tenants.               *)
(***************************************************************************)
EXTENDS AuditChain

CONSTANTS t1, t2, k1, k2, k3, c1, c2

MCRequests == {<<t1, k1, c1>>, <<t1, k1, c2>>, <<t1, k2, c1>>, <<t1, k3, c1>>,
               <<t2, k1, c1>>, <<t2, k2, c2>>}
=============================================================================
