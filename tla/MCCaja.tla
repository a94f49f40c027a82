------------------------------- MODULE MCCaja -------------------------------
(***************************************************************************)
(* Instance of Caja for TLC: two desks and two shifts, a cash sale, a card *)
(* movement entered by hand, two invoice numbers, two requests, one edit.  *)
(***************************************************************************)
EXTENDS Caja, TLC

CONSTANTS cliente

ClienteDeMC == [o \in Origenes |-> cliente]
MontoDeMC == [m \in Movimientos |-> 1]
EfectivoMC == Origenes

Simetria == Permutations(Peticiones) \cup Permutations(Cierres) \cup
            Permutations(Facturas) \cup Permutations(Cajas)
=============================================================================
