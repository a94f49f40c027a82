------------------------------ MODULE Compras ------------------------------
(***************************************************************************)
(* Purchases: their registration, reception, payment, credit notes and     *)
(* annulment, with the goods they bring into the stock of Inventario and   *)
(* what the account of the supplier (CuentaCorrienteProveedor) owes for    *)
(* them.                                                                   *)
(*                                                                         *)
(* Reception and annulment lock the purchase and read it again.  A payment *)
(* and a PUT write the row they read before, without a lock.               *)
(***************************************************************************)
EXTENDS Inventario

CONSTANTS
    Compras,
    ProductoDe,    \* product of each purchase, one unit
    Total,         \* monto_total of a purchase
    Pagos,         \* amounts a payment may have
    MaxPagado,     \* bound: no payment beyond this sum
    Notas,         \* credit notes of the supplier
    DevuelveDe     \* products each note returns, {} for AJUSTE_PRECIO

ASSUME ComprasAssumption ==
    /\ ProductoDe \in [Compras -> Productos]
    /\ Total \in Nat \ {0}
    /\ Pagos \subseteq Nat \ {0}
    /\ MaxPagado \in Nat
    /\ DevuelveDe \in [Notas -> SUBSET Productos]

VARIABLES
    compra,     \* tipo_pago, estado_pago and estado_entrega
    ingresos,   \* INGRESO movements of the purchase
    egresos,    \* EGRESO movements that undo them
    debe,       \* DEBITO less CREDITO rows of the purchase, payments apart
    pagado,     \* sum of its AplicacionPagoCompra
    editadas,   \* purchases written by hand: PUT, DELETE, a payment deleted
    nota        \* NotaCreditoProveedor.estado

varsCompra == <<compra, ingresos, egresos, debe, pagado, editadas>>
varsInventario == <<varsStock, venta, varsAjuste>>
vars == <<varsInventario, peticion, varsCompra, nota>>

-----------------------------------------------------------------------------
TiposPago == {"CONTADO", "CREDITO"}
EstadosPago == {"PENDIENTE", "PARCIAL", "PAGADO", "ANULADA"}
EstadosEntrega == {"PENDIENTE", "RECIBIDA"}
EstadosNota == {"NINGUNA", "EMITIDA", "ANULADA"}

Fila == [tipo : TiposPago, pago : EstadosPago \cup {"NINGUNA", "BORRADA"},
         entrega : EstadosEntrega]

Existe(c) == compra[c].pago \in EstadosPago

LecturasCompra ==
    [op : {"confirmar"}, compra : Compras]
    \cup [op : {"editar"}, compra : Compras, fila : Fila]
    \cup [op : {"pagar"}, compra : Compras]
    \cup [op : {"aplicar"}, compra : Compras, monto : Nat, total : Nat]
    \cup [op : {"anularNota"}, nota : Notas]

TypeOK ==
    /\ TypeOKInventario
    /\ peticion \in [Peticiones -> LecturasInventario \cup LecturasCompra]
    /\ compra \in [Compras -> Fila]
    /\ ingresos \in [Compras -> Nat]
    /\ egresos \in [Compras -> Nat]
    /\ debe \in [Compras -> Int]
    /\ pagado \in [Compras -> Nat]
    /\ editadas \subseteq Compras
    /\ nota \in [Notas -> EstadosNota]

Init ==
    /\ InitInventario
    /\ compra = [c \in Compras |->
                    [tipo |-> "CONTADO", pago |-> "NINGUNA", entrega |-> "PENDIENTE"]]
    /\ ingresos = [c \in Compras |-> 0]
    /\ egresos = [c \in Compras |-> 0]
    /\ debe = [c \in Compras |-> 0]
    /\ pagado = [c \in Compras |-> 0]
    /\ editadas = {}
    /\ nota = [n \in Notas |-> "NINGUNA"]

-----------------------------------------------------------------------------
\* A payment has inserted its AplicacionPagoCompra, which nobody else sees, and
\* is to write the purchase.  A reception or an annulment between the two leaves
\* what one before the first leaves, so it waits here until the payment is over.
PagoEnCurso(c) ==
    \E q \in Peticiones : peticion[q].op = "aplicar" /\ peticion[q].compra = c

\* _actualizar_stock_y_costos
IngresarMercaderia(c) ==
    /\ Mover({ProductoDe[c]}, 1)
    /\ ingresos' = [ingresos EXCEPT ![c] = @ + 1]

\* CompraService.registrar_compra: a cash purchase is paid and received at
\* once, a credit one is owed to the supplier.
RegistrarCompra(c, tipo) ==
    /\ compra[c].pago = "NINGUNA"
    /\ \/ /\ tipo = "CONTADO"
          /\ compra' = [compra EXCEPT ![c] =
                           [tipo |-> tipo, pago |-> "PAGADO", entrega |-> "RECIBIDA"]]
          /\ IngresarMercaderia(c)
          /\ UNCHANGED debe
       \/ /\ tipo = "CREDITO"
          /\ compra' = [compra EXCEPT ![c] =
                           [tipo |-> tipo, pago |-> "PENDIENTE", entrega |-> "PENDIENTE"]]
          /\ debe' = [debe EXCEPT ![c] = @ + Total]
          /\ UNCHANGED <<varsStock, ingresos>>
    /\ UNCHANGED <<venta, varsAjuste, peticion, egresos, pagado, editadas, nota>>

\* confirmar_entrega: tipo_pago is checked on the unlocked row
LeerConfirmar(p, c) ==
    /\ peticion[p] = Libre
    /\ Existe(c)
    /\ compra[c].tipo = "CREDITO"
    /\ Recordar(p, [op |-> "confirmar", compra |-> c])
    /\ UNCHANGED <<varsInventario, varsCompra, nota>>

\* Bug: estado_entrega is not looked at under the lock
SinMirarEntrega(c) == TRUE

PorRecibir(c) == compra[c].entrega = "PENDIENTE"

\* confirmar_compra: estado_pago is not looked at
ConfirmarCompra(p) ==
    /\ peticion[p].op = "confirmar"
    /\ LET c == peticion[p].compra
       IN  /\ Existe(c)
           /\ ~PagoEnCurso(c)
           /\ PorRecibir(c)
           /\ IngresarMercaderia(c)
           /\ compra' = [compra EXCEPT ![c].entrega = "RECIBIDA"]
    /\ Responder(p)
    /\ UNCHANGED <<venta, varsAjuste, egresos, debe, pagado, editadas, nota>>

\* Bug: the payments of the purchase are not looked at
SinMirarPagos(c) == compra[c].pago # "ANULADA"

Anulable(c) == compra[c].pago # "ANULADA" /\ pagado[c] = 0

\* CompraService.anular_compra: every INGRESO of the purchase goes out again
AnularCompra(c) ==
    /\ Existe(c)
    /\ ~PagoEnCurso(c)
    /\ Anulable(c)
    /\ IF compra[c].tipo = "CONTADO" \/ compra[c].entrega = "RECIBIDA"
       THEN /\ Mover({ProductoDe[c]}, -ingresos[c])
            /\ egresos' = [egresos EXCEPT ![c] = @ + ingresos[c]]
       ELSE UNCHANGED <<varsStock, egresos>>
    /\ debe' = [debe EXCEPT ![c] = IF compra[c].tipo = "CREDITO" THEN @ - Total ELSE @]
    /\ compra' = [compra EXCEPT ![c].pago = "ANULADA"]
    /\ UNCHANGED <<venta, varsAjuste, peticion, ingresos, pagado, editadas, nota>>

-----------------------------------------------------------------------------
(* Payments: PagoProveedorViewSet.create *)

\* Compra.objects.get: neither locked nor checked
LeerPagar(p, c) ==
    /\ peticion[p] = Libre
    /\ Existe(c)
    /\ Recordar(p, [op |-> "pagar", compra |-> c])
    /\ UNCHANGED <<varsInventario, varsCompra, nota>>

\* the payment is inserted, and the sum read: other payments in progress are
\* not in it
AplicarPago(p, monto) ==
    /\ peticion[p].op = "pagar"
    /\ LET c == peticion[p].compra
       IN  /\ Existe(c)
           /\ pagado[c] + monto <= MaxPagado
           /\ Recordar(p, [op |-> "aplicar", compra |-> c, monto |-> monto,
                           total |-> pagado[c] + monto])
    /\ UNCHANGED <<varsInventario, varsCompra, nota>>

\* Bug: any payment settles the purchase
SiemprePagado(total) == "PAGADO"

\* Bug: a word estado_pago does not know
EstadoFueraDeLista(total) == IF total >= Total THEN "CANCELADA" ELSE "PARCIAL"

EstadoSegun(total) == IF total >= Total THEN "PAGADO" ELSE "PARCIAL"

\* estado_pago is written over whatever it is by now
TerminarPago(p) ==
    /\ peticion[p].op = "aplicar"
    /\ LET c == peticion[p].compra
       IN  /\ Existe(c)
           /\ pagado' = [pagado EXCEPT ![c] = @ + peticion[p].monto]
           /\ compra' = [compra EXCEPT ![c].pago = EstadoSegun(peticion[p].total)]
    /\ Responder(p)
    /\ UNCHANGED <<varsInventario, ingresos, egresos, debe, editadas, nota>>

\* DELETE of a payment: its applications go with it, estado_pago stays
EliminarPagos(c) ==
    /\ pagado[c] > 0
    /\ c \notin editadas
    /\ pagado' = [pagado EXCEPT ![c] = 0]
    /\ editadas' = editadas \cup {c}
    /\ UNCHANGED <<varsInventario, peticion, compra, ingresos, egresos, debe, nota>>

-----------------------------------------------------------------------------
(* PUT/PATCH and DELETE of a purchase *)

LeerEditar(p, c) ==
    /\ peticion[p] = Libre
    /\ Existe(c)
    /\ Recordar(p, [op |-> "editar", compra |-> c, fila |-> compra[c]])
    /\ UNCHANGED <<varsInventario, varsCompra, nota>>

\* CompraViewSet.update: every column is written, estado_pago and
\* estado_entrega as they were read; neither stock nor account is touched.
EditarCompra(p) ==
    /\ peticion[p].op = "editar"
    /\ LET c == peticion[p].compra
       IN  /\ Existe(c)
           /\ c \notin editadas
           /\ \E tipo \in TiposPago :
                 compra' = [compra EXCEPT ![c] = [peticion[p].fila EXCEPT !.tipo = tipo]]
           /\ editadas' = editadas \cup {c}
    /\ Responder(p)
    /\ UNCHANGED <<varsInventario, ingresos, egresos, debe, pagado, nota>>

\* DELETE: the payments applied go too; movements and account rows stay, but
\* name no purchase any more (SET_NULL).
EliminarCompra(c) ==
    /\ Existe(c)
    /\ ~PagoEnCurso(c)
    /\ compra' = [compra EXCEPT ![c].pago = "BORRADA"]
    /\ pagado' = [pagado EXCEPT ![c] = 0]
    /\ ingresos' = [ingresos EXCEPT ![c] = 0]
    /\ egresos' = [egresos EXCEPT ![c] = 0]
    /\ debe' = [debe EXCEPT ![c] = 0]
    /\ editadas' = editadas \cup {c}
    /\ UNCHANGED <<varsInventario, peticion, nota>>

-----------------------------------------------------------------------------
(* Credit notes of the supplier: NotaCreditoProveedorViewSet *)

\* create: with DEVOLUCION the goods go out
EmitirNota(n) ==
    /\ nota[n] = "NINGUNA"
    /\ Mover(DevuelveDe[n], -1)
    /\ nota' = [nota EXCEPT ![n] = "EMITIDA"]
    /\ UNCHANGED <<venta, varsAjuste, peticion, varsCompra>>

\* anular: the only check is made on the unlocked row ...
LeerAnularNota(p, n) ==
    /\ peticion[p] = Libre
    /\ nota[n] = "EMITIDA"
    /\ Recordar(p, [op |-> "anularNota", nota |-> n])
    /\ UNCHANGED <<varsInventario, varsCompra, nota>>

\* ... and the goods come in again
AnularNota(p) ==
    /\ peticion[p].op = "anularNota"
    /\ Mover(DevuelveDe[peticion[p].nota], 1)
    /\ nota' = [nota EXCEPT ![peticion[p].nota] = "ANULADA"]
    /\ Responder(p)
    /\ UNCHANGED <<venta, varsAjuste, varsCompra>>

-----------------------------------------------------------------------------
NextCompras ==
    \/ \E c \in Compras :
          \/ \E tipo \in TiposPago : RegistrarCompra(c, tipo)
          \/ AnularCompra(c)
          \/ EliminarPagos(c)
          \/ EliminarCompra(c)
    \/ \E n \in Notas : EmitirNota(n)
    \/ \E p \in Peticiones :
          \/ \E c \in Compras : LeerConfirmar(p, c) \/ LeerPagar(p, c) \/ LeerEditar(p, c)
          \/ ConfirmarCompra(p)
          \/ \E monto \in Pagos : AplicarPago(p, monto)
          \/ TerminarPago(p)
          \/ EditarCompra(p)
          \/ \E n \in Notas : LeerAnularNota(p, n)
          \/ AnularNota(p)

Next ==
    \/ NextCompras
    \/ NextInventario /\ UNCHANGED <<varsCompra, nota>>

Spec == Init /\ [][Next]_vars

-----------------------------------------------------------------------------
(* Properties *)

\* The goods of a purchase come in at most once and go out at most once, by any
\* number of receptions, payments and annulments, and what has gone out again
\* is not owed any more.
MercaderiaUnaVez ==
    \A c \in Compras \ editadas :
        /\ egresos[c] <= ingresos[c]
        /\ ingresos[c] <= 1
        /\ egresos[c] = 1 => debe[c] = 0
        /\ debe[c] \in {0, Total}

\* No approval, reception or annulment is applied twice to the stock
AplicadoUnaVez == AjusteAplicadoUnaVez /\ MercaderiaUnaVez

\* A credit purchase that says PAGADO has been paid: two payments that do not
\* see one another may leave it PARCIAL, never the other way round.
PagadaCubierta ==
    \A c \in Compras \ editadas :
        compra[c].pago = "PAGADO" /\ compra[c].tipo = "CREDITO" => pagado[c] >= Total
=============================================================================
