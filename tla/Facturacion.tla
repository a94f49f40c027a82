---------------------------- MODULE Facturacion ----------------------------
(***************************************************************************)
(* Preprinted invoices and what they bill: sales, top-ups and payments.    *)
(*                                                                         *)
(* An invoice is its number, which is unique.  Each billed row points to   *)
(* its invoice (factura_id) and keeps pointing to it once it is annulled;  *)
(* emission looks at the row under its lock.  Whoever annuls a sale or a   *)
(* top-up looks at its invoice before taking that lock.                    *)
(*                                                                         *)
(* An invoice issued for one sale names it (venta_id), and a trigger makes *)
(* the sale that a saved invoice names point to it.                        *)
(***************************************************************************)
EXTENDS Integers, FiniteSets

CONSTANTS
    Origenes,    \* sales, top-ups and payments that may be billed
    Ventas,      \* the sales among them
    ClienteDe,   \* client of each of them
    Facturas,    \* invoice numbers
    Sin,         \* no invoice, no shift
    Peticiones,  \* requests in progress at the same time
    MaxEdiciones \* bound on the PUT, PATCH and DELETE of any row

ASSUME FacturacionAssumption ==
    /\ Sin \notin Facturas \cup Origenes
    /\ Ventas \subseteq Origenes
    /\ MaxEdiciones \in Nat

VARIABLES
    origen,      \* estado of each row
    facturaDe,   \* factura_id of each row
    factura,     \* estado of each invoice
    ventaDe,     \* venta_id of each invoice
    cubre,       \* rows each invoice was issued for
    cruzados,    \* rows annulled after an emission nobody saw
    aMano,       \* invoices whose estado a PUT/PATCH has written
    reescritos,  \* rows whose estado or factura was written over
    ediciones,   \* edits so far
    peticion

varsFactura == <<facturaDe, factura, ventaDe, cubre>>
varsOrigen == <<origen, varsFactura, cruzados, aMano, reescritos>>
varsFacturacion == <<varsOrigen, ediciones>>

Vivas == {"EMITIDA", "ANULADA"}
EstadosFactura == Vivas \cup {"NINGUNA", "ELIMINADA"}

Libre == [op |-> "libre"]

Responder(p) == peticion' = [peticion EXCEPT ![p] = Libre]
Recordar(p, lectura) == peticion' = [peticion EXCEPT ![p] = lectura]

TypeOKFacturacion ==
    /\ origen \in [Origenes -> {"NINGUNO", "VIGENTE", "ANULADO", "ELIMINADO"}]
    /\ facturaDe \in [Origenes -> Facturas \cup {Sin}]
    /\ factura \in [Facturas -> EstadosFactura]
    /\ ventaDe \in [Facturas -> Ventas \cup {Sin}]
    /\ cubre \in [Facturas -> SUBSET Origenes]
    /\ cruzados \subseteq Origenes
    /\ aMano \subseteq Facturas
    /\ reescritos \subseteq Origenes
    /\ ediciones \in 0..MaxEdiciones

InitFacturacion ==
    /\ origen = [o \in Origenes |-> "NINGUNO"]
    /\ facturaDe = [o \in Origenes |-> Sin]
    /\ factura = [f \in Facturas |-> "NINGUNA"]
    /\ ventaDe = [f \in Facturas |-> Sin]
    /\ cubre = [f \in Facturas |-> {}]
    /\ cruzados = {}
    /\ aMano = {}
    /\ reescritos = {}
    /\ ediciones = 0

-----------------------------------------------------------------------------
Editar ==
    /\ ediciones < MaxEdiciones
    /\ ediciones' = ediciones + 1

FacturaEmitida(o) == facturaDe[o] # Sin /\ factura[facturaDe[o]] = "EMITIDA"

\* The sale an invoice may name: no other invoice does (OneToOneField)
Nombrable(f, venta) ==
    venta # Sin => \A g \in Facturas \ {f} : ventaDe[g] # venta

\* FacturacionService.emitir_factura for the rows of lote, with the number f
EmitirFactura(f, lote, venta) ==
    /\ factura[f] \notin Vivas
    /\ Nombrable(f, venta)
    /\ factura' = [factura EXCEPT ![f] = "EMITIDA"]
    /\ ventaDe' = [ventaDe EXCEPT ![f] = venta]
    /\ cubre' = [cubre EXCEPT ![f] = lote]
    /\ facturaDe' = [o \in Origenes |-> IF o \in lote THEN f ELSE facturaDe[o]]

\* Bug: a row that has an invoice is billed again
YaFacturado(o) == TRUE

SinFactura(o) == facturaDe[o] = Sin

Facturable(o) == origen[o] = "VIGENTE"

\* emitir_para_origen, under the lock of the row; the invoice of a sale names it
EmitirParaOrigen(f, o) ==
    /\ Facturable(o)
    /\ SinFactura(o)
    /\ EmitirFactura(f, {o}, IF o \in Ventas THEN o ELSE Sin)
    /\ UNCHANGED <<origen, cruzados, aMano, reescritos, ediciones, peticion>>

\* emitir_lote: one invoice for rows of one client, under all their locks
EmitirLote(f, lote) ==
    /\ lote # {}
    /\ \A o \in lote : Facturable(o) /\ SinFactura(o)
    /\ \A o1, o2 \in lote : ClienteDe[o1] = ClienteDe[o2]
    /\ EmitirFactura(f, lote, Sin)
    /\ UNCHANGED <<origen, cruzados, aMano, reescritos, ediciones, peticion>>

\* fn_sync_factura_venta: f is saved naming venta
Apuntado(f, venta) ==
    [o \in Origenes |->
        IF o = venta THEN f
        ELSE IF o = ventaDe[f] /\ facturaDe[o] = f THEN Sin ELSE facturaDe[o]]

\* anular_factura: the rows keep it
AnularFactura(f) ==
    /\ factura[f] = "EMITIDA"
    /\ factura' = [factura EXCEPT ![f] = "ANULADA"]
    /\ facturaDe' = Apuntado(f, ventaDe[f])
    /\ UNCHANGED <<origen, ventaDe, cubre, cruzados, aMano, reescritos, ediciones, peticion>>

\* PUT/PATCH of an invoice: estado and venta are among the fields it takes.  One
\* that read the row before it was deleted inserts it again.
EditarFactura(f, estado, venta) ==
    /\ factura[f] # "NINGUNA"
    /\ venta # Sin => origen[venta] \in {"VIGENTE", "ANULADO"}
    /\ Nombrable(f, venta)
    /\ factura' = [factura EXCEPT ![f] = estado]
    /\ ventaDe' = [ventaDe EXCEPT ![f] = venta]
    /\ facturaDe' = Apuntado(f, venta)
    /\ aMano' = IF estado # factura[f] THEN aMano \cup {f} ELSE aMano
    /\ reescritos' = reescritos \cup
          {o \in Origenes : facturaDe'[o] # facturaDe[o] \/ (o \in cubre[f] /\ facturaDe'[o] # f)}
    /\ Editar
    /\ UNCHANGED <<origen, cubre, cruzados, peticion>>

\* DELETE: its number and its rows are free again (SET_NULL)
EliminarFactura(f) ==
    /\ factura[f] \in Vivas
    /\ factura' = [factura EXCEPT ![f] = "ELIMINADA"]
    /\ ventaDe' = [ventaDe EXCEPT ![f] = Sin]
    /\ facturaDe' = [o \in Origenes |-> IF facturaDe[o] = f THEN Sin ELSE facturaDe[o]]
    /\ aMano' = aMano \ {f}
    /\ Editar
    /\ UNCHANGED <<origen, cubre, cruzados, reescritos, peticion>>

-----------------------------------------------------------------------------
(* Writers of a billed row that look at no invoice                           *)

\* What the row may be left with: a PUT/PATCH of a sale writes any estado and
\* any factura, or the ones it read; a second confirmation of a top-up, which
\* read it pending, writes VIGENTE, and for a card the factura it had then
Reescrituras(o) ==
    IF o \in Ventas
    THEN {"VIGENTE", "ANULADO"} \X ({f \in Facturas : factura[f] \in Vivas} \cup {Sin})
    ELSE {"VIGENTE"} \X {facturaDe[o], Sin}

\* VentaViewSet's update and the carga.save() of confirmar_carga
ReescribirOrigen(o, fila) ==
    /\ origen[o] # "NINGUNO"
    /\ fila # <<origen[o], facturaDe[o]>>
    /\ origen' = [origen EXCEPT ![o] = fila[1]]
    /\ facturaDe' = [facturaDe EXCEPT ![o] = fila[2]]
    /\ reescritos' = reescritos \cup {o}
    /\ Editar
    /\ UNCHANGED <<factura, ventaDe, cubre, cruzados, aMano, peticion>>

\* DELETE of a sale that no invoice names (PROTECT)
EliminarVenta(o) ==
    /\ o \in Ventas
    /\ origen[o] \in {"VIGENTE", "ANULADO"}
    /\ \A f \in Facturas : ventaDe[f] # o
    /\ origen' = [origen EXCEPT ![o] = "ELIMINADO"]
    /\ Editar
    /\ UNCHANGED <<varsFactura, cruzados, aMano, reescritos, peticion>>

-----------------------------------------------------------------------------
(* Annulment of a sale or of a top-up: estado and invoice are looked at      *)
(* before the lock, only estado after it                                     *)

LeerAnularOrigen(p, o) ==
    /\ peticion[p] = Libre
    /\ origen[o] = "VIGENTE"
    /\ ~FacturaEmitida(o)
    /\ Recordar(p, [op |-> "anular", origen |-> o])
    /\ UNCHANGED varsFacturacion

AnularOrigen(p) ==
    /\ peticion[p].op = "anular"
    /\ LET o == peticion[p].origen
       IN  /\ origen[o] = "VIGENTE"
           /\ origen' = [origen EXCEPT ![o] = "ANULADO"]
           /\ cruzados' = IF FacturaEmitida(o) THEN cruzados \cup {o} ELSE cruzados
    /\ Responder(p)
    /\ UNCHANGED <<varsFactura, aMano, reescritos, ediciones>>

-----------------------------------------------------------------------------
NextFacturacion ==
    \/ \E f \in Facturas :
          \/ \E o \in Origenes : EmitirParaOrigen(f, o)
          \/ \E lote \in SUBSET Origenes : EmitirLote(f, lote)
          \/ AnularFactura(f)
          \/ \E estado \in Vivas, venta \in Ventas \cup {Sin} : EditarFactura(f, estado, venta)
          \/ EliminarFactura(f)
    \/ \E o \in Origenes :
          \/ \E fila \in Reescrituras(o) : ReescribirOrigen(o, fila)
          \/ EliminarVenta(o)
    \/ \E p \in Peticiones :
          \/ \E o \in Origenes : LeerAnularOrigen(p, o)
          \/ AnularOrigen(p)

-----------------------------------------------------------------------------
(* Properties *)

\* No row is billed by two invoices that stand, however single and batch
\* emissions, annulments, corrections and deletions of invoices follow on each
\* other, unless a PUT/PATCH of the sale or of an invoice, or a confirmation
\* that had read the top-up pending, wrote its factura over.
FacturasDisjuntas ==
    \A f, g \in {x \in Facturas : factura[x] = "EMITIDA"} :
        f # g => cubre[f] \cap cubre[g] \subseteq reescritos

\* An annulled row that nobody wrote over has no standing invoice, unless one
\* was issued between the check of its annulment and the lock, or a PATCH made
\* it stand again.
AnuladoSinFactura ==
    \A o \in Origenes \ (cruzados \cup reescritos) :
        origen[o] = "ANULADO" /\ FacturaEmitida(o) => facturaDe[o] \in aMano

\* A row is billed once, and not any more after its annulment
FacturacionExacta == FacturasDisjuntas /\ AnuladoSinFactura
=============================================================================
