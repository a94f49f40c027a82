------------------------------ MODULE Tarjeta ------------------------------
(***************************************************************************)
(* The prepaid card of apps/core: the row of Tarjeta, its ledger           *)
(* MovimientoTarjeta, the top-ups (CargaSaldo) and the sales paid with it. *)
(*                                                                         *)
(* Every HTTP request is one READ COMMITTED transaction (ATOMIC_REQUESTS). *)
(* A request that starts by reading a row without locking it is two        *)
(* actions: Leer... remembers what it saw, the second one takes the row    *)
(* locks, re-reads what the code re-reads, writes and commits.  Locks are  *)
(* held to the commit, so the locked part is one step.  A request that     *)
(* locks before it reads is one action.                                    *)
(*                                                                         *)
(* The ledger is abstracted to its signed sum (libro) and to the           *)
(* saldo_resultante of its last row (ultimo).                              *)
(***************************************************************************)
EXTENDS Integers, FiniteSets

CONSTANTS
    Tarjetas,       \* cards
    Alumnos,        \* the cards of a pupil; the others have a cliente_directo
    Cargas,         \* identifiers of top-ups
    TarjetaDeCarga, \* the card of each top-up
    MontoDeCarga,   \* monto_cargado of each top-up
    Ventas,         \* identifiers of sales paid with a card
    TarjetaDeVenta,
    MontoDeVenta,   \* monto_total of each sale
    MontosEditados, \* values of monto_total a PUT of a sale may write
    MaxEdiciones,   \* bound on the edits of a sale
    Topes,          \* values of deuda_maxima a supervisor may set
    SinTope,        \* deuda_maxima = None: overdraft without a limit
    Ajustes,        \* signed amounts of an adjustment
    MaxAjustes,     \* bound on the number of adjustments
    Peticiones      \* requests in progress at the same time

ASSUME TarjetaAssumption ==
    /\ Alumnos \subseteq Tarjetas
    /\ TarjetaDeCarga \in [Cargas -> Tarjetas]
    /\ MontoDeCarga \in [Cargas -> Nat \ {0}]
    /\ TarjetaDeVenta \in [Ventas -> Tarjetas]
    /\ MontoDeVenta \in [Ventas -> Nat \ {0}]
    /\ MontosEditados \subseteq Nat \ {0}
    /\ MaxEdiciones \in Nat
    /\ Topes \subseteq Nat \cup {SinTope}
    /\ SinTope \notin Int
    /\ 0 \in Topes
    /\ Ajustes \subseteq Int \ {0}
    /\ MaxAjustes \in Nat

VARIABLES
    tarjeta,    \* the row of each card: saldo_actual, estado, deuda_maxima
    libro,      \* per card, the signed sum of its MovimientoTarjeta rows
    ultimo,     \* per card, saldo_resultante of its last movement (0: none)
    carga,      \* CargaSaldo.estado, "NINGUNA" before the row exists
    venta,      \* Venta.estado, "NINGUNA" before the row exists
    acreditado, \* net number of times a top-up stands in the ledger
    cobrado,    \* net number of times a sale stands in the ledger
    ediciones,  \* PUT/PATCH that changed each sale so far
    ajustes,    \* adjustments so far
    peticion    \* what each request in progress has read

vars == <<tarjeta, libro, ultimo, carga, venta, acreditado, cobrado,
          ediciones, ajustes, peticion>>

-----------------------------------------------------------------------------
\* VENCIDA and CANCELADA are set in the admin form only; everything here asks
\* whether the card is ACTIVA, so BLOQUEADA stands for all three.
EstadosTarjeta == {"ACTIVA", "BLOQUEADA"}
EstadosCarga == {"NINGUNA", "PENDIENTE", "CONFIRMADA", "RECHAZADA", "ANULADA"}
EstadosVenta == {"NINGUNA", "ACTIVA", "ANULADA", "BORRADA"}

Fila == [saldo : Int, estado : EstadosTarjeta, tope : Topes]

Libre == [op |-> "libre"]

\* A request that still holds the number a card no longer has
SinTarjeta == [op |-> "sinTarjeta"]

Lecturas ==
    {Libre, SinTarjeta}
    \cup [op : {"confirmar", "anularCarga"}, carga : Cargas]
    \cup [op : {"anularVenta"}, venta : Ventas]
    \cup [op : {"editar"}, tarjeta : Tarjetas, fila : Fila]
    \cup [op : {"cambiarEstado"}, tarjeta : Tarjetas, hacia : EstadosTarjeta]

TypeOK ==
    /\ tarjeta \in [Tarjetas -> Fila]
    /\ libro \in [Tarjetas -> Int]
    /\ ultimo \in [Tarjetas -> Int]
    /\ carga \in [Cargas -> EstadosCarga]
    /\ venta \in [Ventas -> EstadosVenta]
    /\ acreditado \in [Cargas -> Int]
    /\ cobrado \in [Ventas -> Int]
    /\ ediciones \in [Ventas -> 0 .. MaxEdiciones]
    /\ ajustes \in 0 .. MaxAjustes
    /\ peticion \in [Peticiones -> Lecturas]

Init ==
    /\ tarjeta = [t \in Tarjetas |-> [saldo |-> 0, estado |-> "ACTIVA", tope |-> 0]]
    /\ libro = [t \in Tarjetas |-> 0]
    /\ ultimo = [t \in Tarjetas |-> 0]
    /\ carga = [c \in Cargas |-> "NINGUNA"]
    /\ venta = [v \in Ventas |-> "NINGUNA"]
    /\ acreditado = [c \in Cargas |-> 0]
    /\ cobrado = [v \in Ventas |-> 0]
    /\ ediciones = [v \in Ventas |-> 0]
    /\ ajustes = 0
    /\ peticion = [p \in Peticiones |-> Libre]

-----------------------------------------------------------------------------
(* The ledger.  Two places compute the sign of a movement: the trigger of  *)
(* the database and MovimientoTarjeta.save().                              *)

\* fn_sync_saldo_tarjeta: what a row adds to SUM(...)
EfectoTrigger(tipo, monto) == IF tipo = "CONSUMO" THEN -monto ELSE monto

\* Bug: the negative sign of an adjustment is applied twice
ResultanteAjusteRestado(tipo, anterior, monto) ==
    IF tipo \in {"RECARGA", "REVERSO"} THEN anterior + monto
                                       ELSE anterior - monto

\* MovimientoTarjeta.save(): saldo_resultante
Resultante(tipo, anterior, monto) ==
    IF tipo \in {"RECARGA", "REVERSO", "AJUSTE"} THEN anterior + monto
                                                 ELSE anterior - monto

\* Bug: no trigger, only the sum each service does on the row it locked
SaldoSinTrigger(t, suma) == tarjeta[t].saldo + suma - libro[t]

\* The UPDATE of the trigger: whatever the request wrote in saldo_actual is
\* replaced by the sum of the ledger, the new row included.
SaldoSincronizado(t, suma) == suma

Asentar(t, tipo, monto, anterior) ==
    LET suma == libro[t] + EfectoTrigger(tipo, monto)
    IN  /\ libro' = [libro EXCEPT ![t] = suma]
        /\ ultimo' = [ultimo EXCEPT ![t] = Resultante(tipo, anterior, monto)]
        /\ tarjeta' = [tarjeta EXCEPT ![t].saldo = SaldoSincronizado(t, suma)]

\* Tarjeta.puede_pagar
PuedePagar(t, monto) ==
    tarjeta[t].tope # SinTope => tarjeta[t].saldo - monto >= -tarjeta[t].tope

\* cargar_saldo and confirmar_carga demand an active card and, building the
\* notice, tarjeta.hijo: without one the exception undoes the transaction.
Acreditable(t) == tarjeta[t].estado = "ACTIVA" /\ t \in Alumnos

-----------------------------------------------------------------------------
(* Top-ups *)

\* TarjetaService.cargar_saldo: a till top-up, born CONFIRMADA
CargarSaldo(c) ==
    LET t == TarjetaDeCarga[c]
    IN  /\ carga[c] = "NINGUNA"
        /\ Acreditable(t)
        /\ carga' = [carga EXCEPT ![c] = "CONFIRMADA"]
        /\ acreditado' = [acreditado EXCEPT ![c] = @ + 1]
        /\ Asentar(t, "RECARGA", MontoDeCarga[c], tarjeta[t].saldo)
        /\ UNCHANGED <<venta, cobrado, ediciones, ajustes, peticion>>

\* CargaSaldoViewSet.create for a bank transfer
CrearPendiente(c) ==
    /\ carga[c] = "NINGUNA"
    /\ carga' = [carga EXCEPT ![c] = "PENDIENTE"]
    /\ UNCHANGED <<tarjeta, libro, ultimo, venta, acreditado, cobrado, ediciones, ajustes,
                   peticion>>

Recordar(p, lectura) ==
    /\ peticion[p] = Libre
    /\ peticion' = [peticion EXCEPT ![p] = lectura]
    /\ UNCHANGED <<tarjeta, libro, ultimo, carga, venta, acreditado, cobrado,
                   ediciones, ajustes>>

Responder(p) == peticion' = [peticion EXCEPT ![p] = Libre]

LeerConfirmar(p, c) ==
    /\ carga[c] = "PENDIENTE"
    /\ Recordar(p, [op |-> "confirmar", carga |-> c])

\* TarjetaService.confirmar_carga: locks the card, not the top-up, whose
\* estado is the one read before; carga.save() writes the whole row.
ConfirmarCarga(p) ==
    /\ peticion[p].op = "confirmar"
    /\ LET c == peticion[p].carga
           t == TarjetaDeCarga[c]
       IN  /\ Acreditable(t)
           /\ carga' = [carga EXCEPT ![c] = "CONFIRMADA"]
           /\ acreditado' = [acreditado EXCEPT ![c] = @ + 1]
           /\ Asentar(t, "RECARGA", MontoDeCarga[c], tarjeta[t].saldo)
    /\ Responder(p)
    /\ UNCHANGED <<venta, cobrado, ediciones, ajustes>>

\* Bug: the task skips the top-ups of a blocked card
ExpirablesActivas ==
    {c \in Cargas : /\ carga[c] = "PENDIENTE"
                    /\ tarjeta[TarjetaDeCarga[c]].estado = "ACTIVA"}

\* The rows the Celery task updates: those of more than 24 hours among these
Expirables == {c \in Cargas : carga[c] = "PENDIENTE"}

\* Bug: QuerySet.update() checks no choices, any string goes in
EstadoFueraDeLista == "EXPIRADA"

EstadoExpirada == "RECHAZADA"

\* expirar_recargas_pendientes, one UPDATE statement
ExpirarRecargas ==
    \E S \in SUBSET Expirables :
        /\ S # {}
        /\ carga' = [c \in Cargas |-> IF c \in S THEN EstadoExpirada ELSE carga[c]]
        /\ UNCHANGED <<tarjeta, libro, ultimo, venta, acreditado, cobrado,
                       ediciones, ajustes, peticion>>

LeerAnularCarga(p, c) ==
    /\ carga[c] = "CONFIRMADA"
    /\ Recordar(p, [op |-> "anularCarga", carga |-> c])

\* Bug: the estado read before the lock is taken for good
CargaSinReleer(c) == TRUE

\* What anular_carga_saldo checks again with the top-up locked
SigueConfirmada(c) == carga[c] = "CONFIRMADA"

\* TarjetaService.anular_carga_saldo: saldo_anterior is left to save(), which
\* takes it from the last movement of the card.
AnularCarga(p) ==
    /\ peticion[p].op = "anularCarga"
    /\ LET c == peticion[p].carga
       IN  /\ SigueConfirmada(c)
           /\ carga' = [carga EXCEPT ![c] = "ANULADA"]
           /\ acreditado' = [acreditado EXCEPT ![c] = @ - 1]
           /\ Asentar(TarjetaDeCarga[c], "REVERSO", -MontoDeCarga[c],
                      ultimo[TarjetaDeCarga[c]])
    /\ Responder(p)
    /\ UNCHANGED <<venta, cobrado, ediciones, ajustes>>

\* TarjetaService.ajustar_saldo: signed, and on a blocked card too
AjustarSaldo(t, monto) ==
    /\ ajustes < MaxAjustes
    /\ ajustes' = ajustes + 1
    /\ Asentar(t, "AJUSTE", monto, tarjeta[t].saldo)
    /\ UNCHANGED <<carga, venta, acreditado, cobrado, ediciones, peticion>>

\* CierreCuentaService._mover, when the accounts of a pupil are closed: the
\* movement is inserted first, and the balance read before it, moved by the
\* amount, is then written over the sum the trigger left.
MoverCierre(t, monto) ==
    /\ t \in Alumnos
    /\ ajustes < MaxAjustes
    /\ ajustes' = ajustes + 1
    /\ libro' = [libro EXCEPT ![t] = @ + EfectoTrigger("AJUSTE", monto)]
    /\ ultimo' = [ultimo EXCEPT ![t] = Resultante("AJUSTE", tarjeta[t].saldo, monto)]
    /\ tarjeta' = [tarjeta EXCEPT ![t].saldo = @ + monto]
    /\ UNCHANGED <<carga, venta, acreditado, cobrado, ediciones, peticion>>

-----------------------------------------------------------------------------
(* Sales paid with the card *)

\* The card's part of VentaService.registrar_venta
RegistrarVenta(v) ==
    LET t == TarjetaDeVenta[v]
    IN  /\ venta[v] = "NINGUNA"
        /\ tarjeta[t].estado = "ACTIVA"
        /\ PuedePagar(t, MontoDeVenta[v])
        /\ venta' = [venta EXCEPT ![v] = "ACTIVA"]
        /\ cobrado' = [cobrado EXCEPT ![v] = @ + 1]
        /\ Asentar(t, "CONSUMO", MontoDeVenta[v], tarjeta[t].saldo)
        /\ UNCHANGED <<carga, acreditado, ediciones, ajustes, peticion>>

LeerAnularVenta(p, v) ==
    /\ venta[v] = "ACTIVA"
    /\ Recordar(p, [op |-> "anularVenta", venta |-> v])

\* Bug: the estado read before the lock is taken for good
VentaSinReleer(v) == venta[v] # "BORRADA"

\* What anular_venta checks again with the sale locked
SigueActiva(v) == venta[v] \notin {"ANULADA", "BORRADA"}

\* Card and amount the row of the sale may have: an edit writes both
CobroDe(v) ==
    IF ediciones[v] = 0 THEN {<<TarjetaDeVenta[v], MontoDeVenta[v]>>}
                        ELSE Tarjetas \X (MontosEditados \cup {MontoDeVenta[v]})

\* The card's part of VentaService.anular_venta; a sale whose card an edit took
\* away gives nothing back.
AnularVenta(p) ==
    /\ peticion[p].op = "anularVenta"
    /\ LET v == peticion[p].venta
       IN  /\ SigueActiva(v)
           /\ venta' = [venta EXCEPT ![v] = "ANULADA"]
           /\ \/ /\ cobrado' = [cobrado EXCEPT ![v] = @ - 1]
                 /\ \E cobro \in CobroDe(v) :
                       Asentar(cobro[1], "REVERSO", cobro[2], tarjeta[cobro[1]].saldo)
              \/ /\ ediciones[v] > 0
                 /\ UNCHANGED <<tarjeta, libro, ultimo, cobrado>>
    /\ Responder(p)
    /\ UNCHANGED <<carga, acreditado, ediciones, ajustes>>

\* PUT/PATCH of VentaViewSet, when it changes the row: estado, tarjeta and
\* monto_total are fields it takes, and none of them moves the card.  It can
\* write any estado, so one read before somebody's annulment adds nothing; a
\* row deleted meanwhile is inserted again.
EditarVenta(v, estado) ==
    /\ venta[v] # "NINGUNA"
    /\ ediciones[v] < MaxEdiciones
    /\ estado \in {"ACTIVA", "ANULADA"}
    /\ venta' = [venta EXCEPT ![v] = estado]
    /\ ediciones' = [ediciones EXCEPT ![v] = @ + 1]
    /\ UNCHANGED <<tarjeta, libro, ultimo, carga, acreditado, cobrado, ajustes,
                   peticion>>

\* DELETE of VentaViewSet: the ledger keeps the charge
EliminarVenta(v) ==
    /\ venta[v] \in {"ACTIVA", "ANULADA"}
    /\ venta' = [venta EXCEPT ![v] = "BORRADA"]
    /\ UNCHANGED <<tarjeta, libro, ultimo, carga, acreditado, cobrado, ediciones,
                   ajustes, peticion>>

-----------------------------------------------------------------------------
(* Requests on the card's own row *)

\* TarjetaViewSet.get_object() of a PUT/PATCH: the whole row, unlocked
LeerEditar(p, t) ==
    Recordar(p, [op |-> "editar", tarjeta |-> t, fila |-> tarjeta[t]])

\* serializer.save() is instance.save(): every column of the row read before
\* goes back, saldo_actual and estado included.
GuardarEdicion(p) ==
    /\ peticion[p].op = "editar"
    /\ \E tope \in Topes :
          tarjeta' = [tarjeta EXCEPT ![peticion[p].tarjeta] =
                          [peticion[p].fila EXCEPT !.tope = tope]]
    /\ Responder(p)
    /\ UNCHANGED <<libro, ultimo, carga, venta, acreditado, cobrado, ediciones, ajustes>>

\* _cambiar_estado of bloquear and activar: the unlocked check of desde
LeerCambiarEstado(p, t) ==
    \E hacia \in EstadosTarjeta \ {tarjeta[t].estado} :
        Recordar(p, [op |-> "cambiarEstado", tarjeta |-> t, hacia |-> hacia])

\* ... and save(update_fields=["estado"])
CambiarEstado(p) ==
    /\ peticion[p].op = "cambiarEstado"
    /\ tarjeta' = [tarjeta EXCEPT ![peticion[p].tarjeta].estado = peticion[p].hacia]
    /\ Responder(p)
    /\ UNCHANGED <<libro, ultimo, carga, venta, acreditado, cobrado, ediciones, ajustes>>

\* The requests that find the card t by the number they read: confirm the
\* top-up, or save the row.  The annulments read the number again, locked.
ConNumero(q, t) ==
    \/ peticion[q].op = "confirmar" /\ TarjetaDeCarga[peticion[q].carga] = t
    \/ peticion[q].op \in {"editar", "cambiarEstado"} /\ peticion[q].tarjeta = t

\* TarjetaService.renumerar: nro_tarjeta is the primary key.  The history and
\* the balance move with it, and no trigger fires; a request that goes by the
\* old number finds no row (the INSERT of a save() without one repeats the
\* unique holder), so it can only be undone.
Renumerar(t) ==
    /\ peticion' = [q \in Peticiones |->
                       IF ConNumero(q, t) THEN SinTarjeta ELSE peticion[q]]
    /\ UNCHANGED <<tarjeta, libro, ultimo, carga, venta, acreditado, cobrado,
                   ediciones, ajustes>>

\* A validation that fails, an exception or a lost worker: the transaction is
\* rolled back and nothing it wrote remains.
Deshacer(p) ==
    /\ peticion[p] # Libre
    /\ Responder(p)
    /\ UNCHANGED <<tarjeta, libro, ultimo, carga, venta, acreditado, cobrado,
                   ediciones, ajustes>>

-----------------------------------------------------------------------------
DeCarga(c) == CargarSaldo(c) \/ CrearPendiente(c)

DeVenta(v) ==
    \/ RegistrarVenta(v)
    \/ \E estado \in EstadosVenta : EditarVenta(v, estado)
    \/ EliminarVenta(v)

DePeticion(p) ==
    \/ \E c \in Cargas : LeerConfirmar(p, c) \/ LeerAnularCarga(p, c)
    \/ \E v \in Ventas : LeerAnularVenta(p, v)
    \/ \E t \in Tarjetas : LeerEditar(p, t) \/ LeerCambiarEstado(p, t)
    \/ ConfirmarCarga(p)
    \/ AnularCarga(p)
    \/ AnularVenta(p)
    \/ GuardarEdicion(p)
    \/ CambiarEstado(p)
    \/ Deshacer(p)

Next ==
    \/ \E c \in Cargas : DeCarga(c)
    \/ \E v \in Ventas : DeVenta(v)
    \/ \E t \in Tarjetas, monto \in Ajustes : AjustarSaldo(t, monto) \/ MoverCierre(t, monto)
    \/ \E p \in Peticiones : DePeticion(p)
    \/ \E t \in Tarjetas : Renumerar(t)
    \/ ExpirarRecargas

Spec == Init /\ [][Next]_vars

\* Celery beat runs expirar_recargas_pendientes every night, so a top-up that
\* stays PENDIENTE is old enough for one of the runs.
FairSpec == Spec /\ WF_vars(ExpirarRecargas)

-----------------------------------------------------------------------------
(* Properties *)

\* The stored balance, the ledger and the chain of saldo_resultante agree.
Cuadra(t) == tarjeta[t].saldo = libro[t] /\ ultimo[t] = libro[t]

\* No top-up, sale, annulment, adjustment or change of estado, in any order
\* and with any stale reads, takes a card whose accounts agree to one whose
\* accounts do not: only the PUT/PATCH of the card can, when it writes back
\* the row it read before somebody else's movement.
SoloEdicionDescuadra ==
    [][\A t \in Tarjetas :
          Cuadra(t) /\ ~Cuadra(t)' => \E p \in Peticiones : GuardarEdicion(p)]_vars

\* Whatever an edit did to saldo_actual, the next movement of the card restores
\* it to the sum of the ledger (migration 0015), but for one movement: that of a
\* closing of accounts, which carries the difference on.
MovimientoRecompone ==
    [][\A t \in Tarjetas :
          libro'[t] # libro[t] /\ tarjeta'[t].saldo # libro'[t] =>
              /\ \E monto \in Ajustes : MoverCierre(t, monto)
              /\ ~Cuadra(t)]_vars

\* A top-up is never taken back more often than it was credited, one that is
\* CONFIRMADA stands in the ledger, and one that waits, expired or does not
\* exist does not, whatever the concurrent confirmations, annulments and the
\* nightly expiry did.
CargaRespaldada ==
    \A c \in Cargas :
        /\ acreditado[c] >= 0
        /\ carga[c] = "CONFIRMADA" => acreditado[c] >= 1
        /\ carga[c] \in {"NINGUNA", "PENDIENTE", "RECHAZADA"} => acreditado[c] = 0

\* A sale is charged once while it is ACTIVA and refunded exactly once when
\* it is annulled, even by two annulments that both read it ACTIVA.  A PUT may
\* take an annulled sale back to ACTIVA: what is refunded beyond the charge is
\* one refund for each edit of the sale, at most.
VentaCobradaUnaVez ==
    \A v \in Ventas :
        /\ cobrado[v] \in (-ediciones[v]) .. 1
        /\ ediciones[v] = 0 =>
              /\ venta[v] = "ACTIVA" => cobrado[v] = 1
              /\ venta[v] \in {"NINGUNA", "ANULADA"} => cobrado[v] = 0

\* A top-up that waits for confirmation does not wait for ever: somebody
\* confirms it or the nightly task expires it.
PendienteSeResuelve ==
    \A c \in Cargas : carga[c] = "PENDIENTE" ~> carga[c] # "PENDIENTE"

\* "Solo se pueden confirmar cargas PENDIENTE" (views.py): a top-up is never
\* in the ledger more than once.
AcreditadaUnaVez == \A c \in Cargas : acreditado[c] <= 1
=============================================================================
