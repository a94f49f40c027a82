---------------------------- MODULE MCAlmuerzos ----------------------------
(***************************************************************************)
(* Instance of Almuerzos for TLC: two pupils, three scans of the first on  *)
(* one day, a top-up, requests that overlap.                               *)
(***************************************************************************)
EXTENDS Almuerzos, TLC

CONSTANTS hijo, hermano

HijoDeMC == [e \in Envios |-> hijo]
HijoDeRecargaMC == [r \in Recargas |-> hijo]

Simetria == Permutations(Peticiones) \cup Permutations(Envios)
=============================================================================
