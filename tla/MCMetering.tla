----------------------------- MODULE MCMetering -----------------------------
(***************************************************************************)
(* Metering on small instances: one tenant whose two meters overlapping    *)
(* flushes may lock in opposite orders, with or without a second tenant    *)
(* that a flush reaches before or after it.                                *)
(***************************************************************************)
EXTENDS Metering

CONSTANTS t1, t2, m1, m2

OneTenant  == {<<t1, m1>>, <<t1, m2>>}
TwoTenants == OneTenant \union {<<t2, m1>>}
=============================================================================
