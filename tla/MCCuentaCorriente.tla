------------------------ MODULE MCCuentaCorriente ------------------------
(***************************************************************************)
(* Instance of CuentaCorriente for TLC: one client, one document of each   *)
(* kind, requests that overlap.                                            *)
(***************************************************************************)
EXTENDS CuentaCorriente, TLC

CONSTANTS cliente, venta, nota, pago, cargo

TipoDeMC == [d \in Documentos |-> CASE d = venta -> "VENTA"
                                    [] d = nota -> "NOTA"
                                    [] d = pago -> "PAGO"
                                    [] OTHER -> "CARGO"]

ClienteDeMC == [d \in Documentos |-> cliente]

SimetriaPeticiones == Permutations(Peticiones)
=============================================================================
