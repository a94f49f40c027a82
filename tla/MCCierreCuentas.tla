--------------------------- MODULE MCCierreCuentas ---------------------------
(***************************************************************************)
(* Instance of CierreCuentas for TLC: a pupil with both pockets and the    *)
(* card of a sibling, two resolutions of one guarani, two requests.        *)
(***************************************************************************)
EXTENDS CierreCuentas, TLC

CONSTANTS h1, h2, k1, k2, k3

HijoDeMC == [c \in Cuentas |-> IF c = k3 THEN h2 ELSE h1]

\* The card of the pupil has money or a debt, the lunch account a debt
RangoMC == (k1 :> -1 .. 1) @@ (k2 :> -1 .. 0) @@ (k3 :> {0})

Simetria == Permutations(Peticiones) \cup Permutations(Resoluciones)
=============================================================================
