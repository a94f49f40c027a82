----------------------------- MODULE MCAlumnos -----------------------------
(***************************************************************************)
(* Instance of Alumnos for TLC: a pupil of the last course or of the one   *)
(* before it, two requests beside the nightly task.                        *)
(***************************************************************************)
EXTENDS Alumnos, TLC

CONSTANTS a2, a3

SiguienteMC == [g \in Grados |-> IF g = a2 THEN a3 ELSE Sin]

Simetria == Permutations(Peticiones)
=============================================================================
