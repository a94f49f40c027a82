----------------------------- MODULE MCCompras -----------------------------
(***************************************************************************)
(* Instance of Compras for TLC: a product with stock that may not go below *)
(* zero and one without a row that may; sales, an adjustment, purchases    *)
(* and a credit note over them.                                            *)
(***************************************************************************)
EXTENDS Compras, TLC

CONSTANTS pan, jugo, v1, merma, c1, n1

ItemsDeMC == [v \in Ventas |-> {jugo}]
TipoAjusteMC == [a \in Ajustes |-> "MERMA"]
ProductosDeMC == [a \in Ajustes |-> {pan}]
ProductoDeMC == [c \in Compras |-> pan]
DevuelveDeMC == [n \in Notas |-> {pan, jugo}]

SimetriaPeticiones == Permutations(Peticiones)
=============================================================================
