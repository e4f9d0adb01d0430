--------------------------- MODULE MCCursorPulls ---------------------------
(***************************************************************************)
(* CursorPulls on small instances: days of two ticks, a history of whole   *)
(* days before the tenant is onboarded, and every stream by turns.         *)
(***************************************************************************)
EXTENDS CursorPulls, TLC

CONSTANTS w1, w2, k1, k2

OneDayBack == [s \in AllStreams |-> 1]

\* Long enough for a day, and the window above it, to end.
ShortClocks == [s \in AllStreams |->
                  IF s \in {"vertex_costs", "code_analytics"} THEN 4 ELSE 3]

WorkerSymmetry == Permutations({w1, w2})
=============================================================================
