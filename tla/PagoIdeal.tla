----------------------------- MODULE PagoIdeal -----------------------------
(***************************************************************************)
(* What the online payment promises to the holder: the life of a payment   *)
(* without requests, gateway calls or crashes.                             *)
(*                                                                         *)
(* A payment that one request at a time attends is credited once, after    *)
(* Bancard has the money or by the administrator's hand once it failed,    *)
(* and taken back once, after Bancard has returned the money.  Once two    *)
(* requests overlap (sola is FALSE) the code promises less: its state may  *)
(* be written over and it may be credited again, but it is still taken     *)
(* back only once and only after the return.                               *)
(***************************************************************************)
EXTENDS Naturals

CONSTANT Pagos

VARIABLES
    estado,     \* what the payment has come to
    dinero,     \* who has the money of the holder
    credito,    \* times it was credited
    descuento,  \* times the credit was taken back
    sola        \* whether its requests came one after the other

idealVars == <<estado, dinero, credito, descuento, sola>>

Estados == {"enCurso", "acreditado", "rechazado", "enError", "anulado"}

Init ==
    /\ estado = [x \in Pagos |-> "enCurso"]
    /\ dinero = [x \in Pagos |-> "titular"]
    /\ credito = [x \in Pagos |-> 0]
    /\ descuento = [x \in Pagos |-> 0]
    /\ sola = [x \in Pagos |-> TRUE]

\* The holder pays; a payment that failed or was settled is not charged
Cobrar(x) ==
    /\ dinero[x] = "titular"
    /\ estado[x] \in {"enCurso", "rechazado"}
    /\ dinero' = [dinero EXCEPT ![x] = "comercio"]
    /\ UNCHANGED <<estado, credito, descuento, sola>>

Terminar(x) ==
    /\ sola[x]
    /\ \/ /\ estado[x] = "enCurso"
          /\ \E fin \in {"rechazado", "enError"} : estado' = [estado EXCEPT ![x] = fin]
       \/ /\ estado[x] = "anulado"
          /\ estado' = [estado EXCEPT ![x] = "rechazado"]
    /\ UNCHANGED <<dinero, credito, descuento, sola>>

Acreditar(x) ==
    /\ sola[x]
    /\ \/ estado[x] = "enCurso" /\ dinero[x] = "comercio"
       \/ estado[x] = "enError"
    /\ credito[x] = 0
    /\ estado' = [estado EXCEPT ![x] = "acreditado"]
    /\ credito' = [credito EXCEPT ![x] = 1]
    /\ UNCHANGED <<dinero, descuento, sola>>

\* Bancard returns the money of a payment that was credited ...
Devolver(x) ==
    /\ dinero[x] = "comercio"
    /\ sola[x] => estado[x] = "acreditado"
    /\ credito[x] >= 1
    /\ dinero' = [dinero EXCEPT ![x] = "devuelto"]
    /\ UNCHANGED <<estado, credito, descuento, sola>>

\* ... and then the credit is taken back
Anular(x) ==
    /\ dinero[x] = "devuelto"
    /\ sola[x] => estado[x] = "acreditado"
    /\ credito[x] >= 1
    /\ descuento[x] = 0
    /\ estado' = [estado EXCEPT ![x] = "anulado"]
    /\ descuento' = [descuento EXCEPT ![x] = 1]
    /\ UNCHANGED <<dinero, credito, sola>>

Solapar(x) ==
    /\ sola' = [sola EXCEPT ![x] = FALSE]
    /\ UNCHANGED <<estado, dinero, credito, descuento>>

Desordenar(x) ==
    /\ ~sola[x]
    /\ \E fin \in Estados : estado' = [estado EXCEPT ![x] = fin]
    /\ \E n \in {0, 1} : credito' = [credito EXCEPT ![x] = @ + n]
    /\ estado'[x] = "acreditado" => credito'[x] >= 1
    /\ UNCHANGED <<dinero, descuento, sola>>

Paso(x) ==
    \/ Cobrar(x) \/ Terminar(x) \/ Acreditar(x) \/ Devolver(x) \/ Anular(x)
    \/ Solapar(x) \/ Desordenar(x)

Next == \E x \in Pagos : Paso(x)

Spec == Init /\ [][Next]_idealVars
=============================================================================
