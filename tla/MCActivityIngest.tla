-------------------------- MODULE MCActivityIngest --------------------------
(***************************************************************************)
(* ActivityIngest on small instances: two workers that pull, and deliver,  *)
(* one beside the other, and two interactions that race without a clock.   *)
(***************************************************************************)
EXTENDS ActivityIngest
=============================================================================
