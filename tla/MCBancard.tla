----------------------------- MODULE MCBancard -----------------------------
(***************************************************************************)
(* Instances of Bancard for TLC: a top-up, of the card or of the lunches,  *)
(* next to a payment of the current account; requests that overlap.        *)
(***************************************************************************)
EXTENDS Bancard, TLC

CONSTANTS recarga, corriente

RepartosMC ==
    {[x \in Pagos |-> IF x = corriente THEN "CC" ELSE t] : t \in {"TARJETA", "ALMUERZO"}}

SimetriaPeticiones == Permutations(Peticiones)
=============================================================================
