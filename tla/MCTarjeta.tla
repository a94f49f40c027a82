----------------------------- MODULE MCTarjeta -----------------------------
(***************************************************************************)
(* Instances of Tarjeta for TLC: the card of a pupil, the card of a        *)
(* teacher, top-ups of the first, sales with either.                       *)
(***************************************************************************)
EXTENDS Tarjeta

CONSTANTS alumno, docente, c1, c2, v1, v2

TarjetaDeCargaMC == [c \in Cargas |-> alumno]
MontoDeCargaMC == [c \in Cargas |-> 1]
TarjetaDeVentaMC == [v \in Ventas |-> IF v = v1 THEN alumno ELSE docente]
MontoDeVentaMC == [v \in Ventas |-> IF v = v1 THEN 1 ELSE 2]
AjustesMC == {-1}
=============================================================================
