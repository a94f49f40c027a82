----------------------------- MODULE Inventario -----------------------------
(***************************************************************************)
(* The stock of each product (Stock.cantidad), the movements that explain  *)
(* it (MovimientoStock), and what changes both inside this module: sales,  *)
(* their annulment, and the adjustments an administrator approves.         *)
(*                                                                         *)
(* Every writer locks the row of Stock before it reads the quantity it     *)
(* will write, with one exception.  A sale locks the rows of its products  *)
(* in one query; a product without a row is not in it, and its row, if     *)
(* another request creates it meanwhile, is read without a lock.           *)
(***************************************************************************)
EXTENDS Integers, FiniteSets

CONSTANTS
    Productos,
    ConNegativo,   \* products with permite_stock_negativo
    ConFila,       \* products that have a row of Stock from the start
    Ventas,
    ItemsDe,       \* products of each sale, one unit of each
    Ajustes,
    TipoAjuste,    \* AUMENTO or MERMA
    ProductosDe,   \* products of each adjustment, one unit of each
    Inicial,       \* quantity in the initial rows
    Peticiones     \* requests in progress at the same time

ASSUME InventarioAssumption ==
    /\ ConNegativo \subseteq Productos
    /\ ConFila \subseteq Productos
    /\ ItemsDe \in [Ventas -> SUBSET Productos]
    /\ TipoAjuste \in [Ajustes -> {"AUMENTO", "MERMA"}]
    /\ ProductosDe \in [Ajustes -> SUBSET Productos]
    /\ Inicial \in Nat

VARIABLES
    filas,        \* products that have a row of Stock
    existencia,   \* Stock.cantidad
    libro,        \* sum of the movements of each product
    sinCandado,   \* products a sale has written from an unlocked read
    venta,        \* Venta.estado
    ajuste,       \* AjusteInventario.estado
    aplicado,     \* how often the movements of an adjustment were made
    aMano,        \* adjustments written through PUT/PATCH/DELETE
    peticion

varsStock == <<filas, existencia, libro, sinCandado>>
varsAjuste == <<ajuste, aplicado, aMano>>

-----------------------------------------------------------------------------
EstadosVenta == {"NINGUNA", "ACTIVA", "ANULADA"}
EstadosAjuste == {"NINGUNO", "PENDIENTE", "APROBADO", "RECHAZADO", "BORRADO"}

Libre == [op |-> "libre"]

\* leida: quantity read of each item; bajoLlave: the items whose row is locked;
\* leidos: those read without a lock.
LecturasInventario ==
    {Libre}
    \cup [op : {"venta"}, venta : Ventas, leida : [Productos -> Int],
          bajoLlave : SUBSET Productos, leidos : SUBSET Productos]
    \cup [op : {"anularVenta"}, venta : Ventas]
    \cup [op : {"aprobar", "rechazar", "editarAjuste"}, ajuste : Ajustes]

TypeOKInventario ==
    /\ filas \subseteq Productos
    /\ existencia \in [Productos -> Int]
    /\ libro \in [Productos -> Int]
    /\ sinCandado \subseteq Productos
    /\ venta \in [Ventas -> EstadosVenta]
    /\ ajuste \in [Ajustes -> EstadosAjuste]
    /\ aplicado \in [Ajustes -> Nat]
    /\ aMano \subseteq Ajustes

\* An initial row comes with its INVENTARIO_INICIAL movement
InitInventario ==
    /\ filas = ConFila
    /\ existencia = [pr \in Productos |-> IF pr \in ConFila THEN Inicial ELSE 0]
    /\ libro = existencia
    /\ sinCandado = {}
    /\ venta = [v \in Ventas |-> "NINGUNA"]
    /\ ajuste = [a \in Ajustes |-> "NINGUNO"]
    /\ aplicado = [a \in Ajustes |-> 0]
    /\ aMano = {}
    /\ peticion = [p \in Peticiones |-> Libre]

-----------------------------------------------------------------------------
(* Rows and movements of stock *)

Responder(p) == peticion' = [peticion EXCEPT ![p] = Libre]
Recordar(p, lectura) == peticion' = [peticion EXCEPT ![p] = lectura]

\* Bug: the sale reads its rows without FOR UPDATE
SinCandadoDeVenta(pr) == FALSE

\* A sale in progress holds the lock of the row of product pr
Bloqueado(pr) ==
    \E q \in Peticiones : peticion[q].op = "venta" /\ pr \in peticion[q].bajoLlave

\* Bug: the quantity is written with update(), past full_clean()
AdmiteTodo(pr, cantidad) == TRUE

\* Stock.clean()
Admite(pr, cantidad) == cantidad >= 0 \/ pr \in ConNegativo

\* get_or_create and select_for_update of the rows of productos, n units more
\* of each (less if negative), and one movement each
Mover(productos, n) ==
    /\ \A pr \in productos : ~Bloqueado(pr)
    /\ n < 0 => \A pr \in productos : Admite(pr, existencia[pr] + n)
    /\ filas' = filas \cup productos
    /\ existencia' = [pr \in Productos |->
                         existencia[pr] + IF pr \in productos THEN n ELSE 0]
    /\ libro' = [pr \in Productos |-> libro[pr] + IF pr \in productos THEN n ELSE 0]
    /\ UNCHANGED sinCandado

-----------------------------------------------------------------------------
(* Sales *)

\* registrar_venta: the rows that exist are locked, the quantities checked;
\* without a row there are 0 units.
EmpezarVenta(p, v) ==
    /\ peticion[p] = Libre
    /\ venta[v] = "NINGUNA"
    /\ \A q \in Peticiones : peticion[q].op = "venta" => peticion[q].venta # v
    /\ \A pr \in ItemsDe[v] :
          /\ ~Bloqueado(pr)
          /\ Admite(pr, (IF pr \in filas THEN existencia[pr] ELSE 0) - 1)
    /\ Recordar(p, [op |-> "venta", venta |-> v, leida |-> existencia,
                    bajoLlave |-> ItemsDe[v] \cap filas, leidos |-> {}])
    /\ UNCHANGED <<varsStock, venta, varsAjuste>>

\* ... a row that was not there is found by get_or_create, and not locked
LeerFilaAjena(p) ==
    /\ peticion[p].op = "venta"
    /\ LET pide == peticion[p]
       IN  \E pr \in ItemsDe[pide.venta] \ (pide.bajoLlave \cup pide.leidos) :
              /\ pr \in filas
              /\ peticion' = [peticion EXCEPT ![p].leidos = @ \cup {pr},
                                              ![p].leida[pr] = existencia[pr]]
    /\ UNCHANGED <<varsStock, venta, varsAjuste>>

\* ... and the sale is written: stock.cantidad is what was read, less one.  A
\* row that is still missing is created.
RegistrarVenta(p) ==
    /\ peticion[p].op = "venta"
    /\ LET pide == peticion[p]
           items == ItemsDe[pide.venta]
           vistos == pide.bajoLlave \cup pide.leidos
       IN  /\ (items \ vistos) \cap filas = {}
           /\ \A pr \in items \ pide.bajoLlave : ~Bloqueado(pr)
           /\ \A pr \in items : Admite(pr, pide.leida[pr] - 1)
           /\ filas' = filas \cup items
           /\ existencia' = [pr \in Productos |->
                                IF pr \in items THEN pide.leida[pr] - 1 ELSE existencia[pr]]
           /\ libro' = [pr \in Productos |-> libro[pr] - IF pr \in items THEN 1 ELSE 0]
           /\ sinCandado' = sinCandado \cup pide.leidos
           /\ venta' = [venta EXCEPT ![pide.venta] = "ACTIVA"]
    /\ Responder(p)
    /\ UNCHANGED varsAjuste

\* anular of VentaViewSet: the unlocked check
LeerAnularVenta(p, v) ==
    /\ peticion[p] = Libre
    /\ venta[v] = "ACTIVA"
    /\ Recordar(p, [op |-> "anularVenta", venta |-> v])
    /\ UNCHANGED <<varsStock, venta, varsAjuste>>

\* anular_venta: the check under the lock, and the goods come back
AnularVenta(p) ==
    /\ peticion[p].op = "anularVenta"
    /\ LET v == peticion[p].venta
       IN  /\ venta[v] = "ACTIVA"
           /\ Mover(ItemsDe[v], 1)
           /\ venta' = [venta EXCEPT ![v] = "ANULADA"]
    /\ Responder(p)
    /\ UNCHANGED varsAjuste

-----------------------------------------------------------------------------
(* Adjustments *)

\* AjusteInventarioViewSet.create
CrearAjuste(a) ==
    /\ ajuste[a] = "NINGUNO"
    /\ ajuste' = [ajuste EXCEPT ![a] = "PENDIENTE"]
    /\ UNCHANGED <<varsStock, venta, aplicado, aMano, peticion>>

\* get_object() and the unlocked check of aprobar and rechazar; a PUT has none
LeerAjuste(p, a, op) ==
    /\ peticion[p] = Libre
    /\ ajuste[a] \in IF op = "editarAjuste" THEN {"PENDIENTE", "APROBADO", "RECHAZADO"}
                                            ELSE {"PENDIENTE"}
    /\ Recordar(p, [op |-> op, ajuste |-> a])
    /\ UNCHANGED <<varsStock, venta, varsAjuste>>

\* Bug: only the unlocked check is made
SinVolverAMirar(a) == TRUE

SiguePendiente(a) == ajuste[a] = "PENDIENTE"

\* aprobar: locked and looked at again; all the details or none
Aprobar(p) ==
    /\ peticion[p].op = "aprobar"
    /\ LET a == peticion[p].ajuste
       IN  /\ SiguePendiente(a)
           /\ Mover(ProductosDe[a], IF TipoAjuste[a] = "AUMENTO" THEN 1 ELSE -1)
           /\ ajuste' = [ajuste EXCEPT ![a] = "APROBADO"]
           /\ aplicado' = [aplicado EXCEPT ![a] = @ + 1]
    /\ Responder(p)
    /\ UNCHANGED <<venta, aMano>>

\* rechazar: the estado is written over whatever it is by now
Rechazar(p) ==
    /\ peticion[p].op = "rechazar"
    /\ LET a == peticion[p].ajuste
       IN  ajuste' = [ajuste EXCEPT ![a] = IF @ = "BORRADO" THEN @ ELSE "RECHAZADO"]
    /\ Responder(p)
    /\ UNCHANGED <<varsStock, venta, aplicado, aMano>>

\* PUT of an adjustment: estado is a writable field
EditarAjuste(p) ==
    /\ peticion[p].op = "editarAjuste"
    /\ LET a == peticion[p].ajuste
       IN  /\ a \notin aMano
           /\ \E estado \in {"PENDIENTE", "APROBADO", "RECHAZADO"} :
                 ajuste' = [ajuste EXCEPT ![a] = estado]
           /\ aMano' = aMano \cup {a}
    /\ Responder(p)
    /\ UNCHANGED <<varsStock, venta, aplicado>>

\* DELETE: the movements stay and lose their adjustment
EliminarAjuste(a) ==
    /\ ajuste[a] \in {"PENDIENTE", "APROBADO", "RECHAZADO"}
    /\ ajuste' = [ajuste EXCEPT ![a] = "BORRADO"]
    /\ aplicado' = [aplicado EXCEPT ![a] = 0]
    /\ aMano' = aMano \cup {a}
    /\ UNCHANGED <<varsStock, venta, peticion>>

-----------------------------------------------------------------------------
\* A validation that fails, an exception or a lost worker: rolled back
Deshacer(p) ==
    /\ peticion[p] # Libre
    /\ Responder(p)
    /\ UNCHANGED <<varsStock, venta, varsAjuste>>

NextInventario ==
    \/ \E p \in Peticiones :
          \/ \E v \in Ventas : EmpezarVenta(p, v) \/ LeerAnularVenta(p, v)
          \/ LeerFilaAjena(p)
          \/ RegistrarVenta(p)
          \/ AnularVenta(p)
          \/ \E a \in Ajustes, op \in {"aprobar", "rechazar", "editarAjuste"} :
                LeerAjuste(p, a, op)
          \/ Aprobar(p)
          \/ Rechazar(p)
          \/ EditarAjuste(p)
          \/ Deshacer(p)
    \/ \E a \in Ajustes : CrearAjuste(a) \/ EliminarAjuste(a)

-----------------------------------------------------------------------------
(* Properties *)

\* The quantity of a product is the sum of its movements, whatever sales,
\* annulments, adjustments and purchases overlap, but for a product whose first
\* row appeared in the middle of a sale.
LibroCuadra == \A pr \in Productos \ sinCandado : existencia[pr] = libro[pr]

\* A product that may not go below zero never does: a purchase whose goods
\* were sold is not annulled, a shrinkage of more than there is not approved.
StockNoNegativo == \A pr \in Productos \ ConNegativo : existencia[pr] >= 0

\* What the shelf holds is what the movements say, and no less than nothing
StockCuadra == LibroCuadra /\ StockNoNegativo

\* The movements of an adjustment are made once, and never for one that is
\* still pending, although approvals and rejections of it overlap.  One that is
\* RECHAZADO may have been applied: rechazar overwrites an APROBADO.
AjusteAplicadoUnaVez ==
    \A a \in Ajustes \ aMano :
        /\ aplicado[a] <= 1
        /\ ajuste[a] = "APROBADO" => aplicado[a] = 1
        /\ ajuste[a] = "PENDIENTE" => aplicado[a] = 0
=============================================================================
