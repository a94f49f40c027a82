------------------------------ MODULE Bancard ------------------------------
(***************************************************************************)
(* The online payment of apps/core: a row of PagoBancard, the operation it *)
(* stands for at the payment gateway (Bancard vPOS) and the credit it      *)
(* leaves in a card, a lunch account or a current account.                 *)
(*                                                                         *)
(* Each request reads the payment without a lock, most of them then call   *)
(* the gateway, and at last they write and commit.  These are separate     *)
(* actions: between them other requests for the same payment run, and the  *)
(* worker may be lost.  A gateway call that times out may have had its     *)
(* effect; the circuit breaker answers the same error without calling.     *)
(***************************************************************************)
EXTENDS Naturals

CONSTANTS
    Pagos,        \* shop_process_id's
    Repartos,     \* the tipos the payments may have, for each of them
    Acreditables, \* those whose holder can be credited: a pupil's card, a
                  \* client with a portal user
    Peticiones    \* requests in progress at the same time

TiposPago == {"TARJETA", "ALMUERZO", "CC"}

ASSUME BancardAssumption ==
    /\ Repartos \subseteq [Pagos -> TiposPago]
    /\ Acreditables \subseteq Pagos

VARIABLES
    tipo,     \* PagoBancard.tipo, which the endpoint that starts it writes
    pago,     \* PagoBancard.estado, "NINGUNO" before the row is committed
    banco,    \* the operation at Bancard
    credito,  \* number of credits made with this reference
    reverso,  \* number of compensating movements made for it
    activa,   \* whether the card to be credited is ACTIVA
    solapada, \* whether two requests for this payment ever overlapped
    peticion  \* what each request in progress has learnt

vars == <<tipo, pago, banco, credito, reverso, activa, solapada, peticion>>

-----------------------------------------------------------------------------
EstadosPago ==
    {"NINGUNO", "PENDIENTE", "APROBADO", "RECHAZADO", "CANCELADO", "ERROR"}
EstadosBanco == {"sinOperacion", "abierta", "aprobada", "rechazada", "reversada"}

Libre == [op |-> "libre"]

\* op: the endpoint.  sabe: what the gateway, or the search for an existing
\* credit, has answered; "nada" before the call.
Operaciones == {"charge", "webhook", "retorno", "reconsulta", "cierre",
                "reintento", "anular"}
Respuestas == {"nada", "00", "rechazo", "3ds", "sinRespuesta",
               "existe", "noExiste", "reversado"}

Lecturas == {Libre} \cup [op : Operaciones, pago : Pagos, sabe : Respuestas]

TypeOK ==
    /\ tipo \in [Pagos -> TiposPago]
    /\ pago \in [Pagos -> EstadosPago]
    /\ banco \in [Pagos -> EstadosBanco]
    /\ credito \in [Pagos -> Nat]
    /\ reverso \in [Pagos -> Nat]
    /\ activa \in [Pagos -> BOOLEAN]
    /\ solapada \in [Pagos -> BOOLEAN]
    /\ peticion \in [Peticiones -> Lecturas]

Init ==
    /\ tipo \in Repartos
    /\ pago = [x \in Pagos |-> "NINGUNO"]
    /\ banco = [x \in Pagos |-> "sinOperacion"]
    /\ credito = [x \in Pagos |-> 0]
    /\ reverso = [x \in Pagos |-> 0]
    /\ activa = [x \in Pagos |-> TRUE]
    /\ solapada = [x \in Pagos |-> FALSE]
    /\ peticion = [p \in Peticiones |-> Libre]

-----------------------------------------------------------------------------
(* Requests *)

EnCurso(q, x) == peticion[q] # Libre /\ peticion[q].pago = x

\* A request for x begins, knowing sabe
Empezar(p, op, x, sabe) ==
    /\ peticion[p] = Libre
    /\ peticion' = [peticion EXCEPT ![p] = [op |-> op, pago |-> x, sabe |-> sabe]]
    /\ solapada' = [solapada EXCEPT ![x] =
                       @ \/ \E q \in Peticiones \ {p} : EnCurso(q, x)]
    /\ UNCHANGED <<tipo, pago, banco, credito, reverso, activa>>

\* What the request p, of one of the kinds ops, has learnt so far
Espera(p, ops, x) ==
    /\ peticion[p] # Libre
    /\ peticion[p].op \in ops
    /\ peticion[p].pago = x
    /\ peticion[p].sabe = "nada"

Resuelve(p, ops, x) ==
    /\ peticion[p] # Libre
    /\ peticion[p].op \in ops
    /\ peticion[p].pago = x
    /\ peticion[p].sabe # "nada"

Aprender(p, sabe) == peticion' = [peticion EXCEPT ![p].sabe = sabe]

Responder(p) == peticion' = [peticion EXCEPT ![p] = Libre]

-----------------------------------------------------------------------------
(* Crediting *)

\* acreditar_saldo goes through TarjetaService.cargar_saldo, which refuses a
\* card that is not ACTIVA; the others fail without a portal user.
Acreditable(x) ==
    /\ x \in Acreditables
    /\ tipo[x] = "TARJETA" => activa[x]

\* Bug: estado is written whether or not the credit could be made
SiempreAprobado(x) == "APROBADO"

\* The except clause around the credit
EstadoTrasAcreditar(x) == IF Acreditable(x) THEN "APROBADO" ELSE "ERROR"

\* acreditar_saldo, acreditar_pago_almuerzo, acreditar_pago_cc
Acreditar(x) ==
    /\ credito' = [credito EXCEPT ![x] = IF Acreditable(x) THEN @ + 1 ELSE @]
    /\ pago' = [pago EXCEPT ![x] = EstadoTrasAcreditar(x)]

Escribir(x, estado) ==
    /\ pago' = [pago EXCEPT ![x] = estado]
    /\ UNCHANGED credito

\* Bug: any answer with a response code counts as a charge
CualquierCodigo(codigo) == codigo \in {"00", "rechazo"}

CodigoAprobado(codigo) == codigo = "00"

\* procesar_resultado_pago
ProcesarResultado(x, codigo) ==
    \/ CodigoAprobado(codigo) /\ Acreditar(x)
    \/ ~CodigoAprobado(codigo) /\ Escribir(x, "RECHAZADO")

-----------------------------------------------------------------------------
(* Starting a payment *)

Nuevo(x) ==
    /\ pago[x] = "NINGUNO"
    /\ banco[x] = "sinOperacion"
    /\ \A q \in Peticiones : ~EnCurso(q, x)

\* Bug: save(update_fields=[...]) checks no choices, any string goes in
EstadoFueraDeLista == "FALLIDO"

EstadoFallido == "ERROR"

\* iniciar_pago, and what its answer makes of the row: nobody can pay before the
\* answer holding process_id is out, so it is one step.
Iniciar(x) ==
    /\ Nuevo(x)
    /\ \/ /\ pago' = [pago EXCEPT ![x] = "PENDIENTE"]
          /\ banco' = [banco EXCEPT ![x] = "abierta"]
       \/ /\ pago' = [pago EXCEPT ![x] = EstadoFallido]
          /\ UNCHANGED banco
    /\ UNCHANGED <<tipo, credito, reverso, activa, solapada, peticion>>

\* bancard_iniciar: the only one that looks at the card
IniciarTarjeta(x) ==
    /\ tipo[x] = "TARJETA"
    /\ activa[x]
    /\ Iniciar(x)

\* bancard_iniciar_almuerzo
IniciarAlmuerzo(x) == tipo[x] = "ALMUERZO" /\ Iniciar(x)

\* bancard_iniciar_cc
IniciarCC(x) == tipo[x] = "CC" /\ Iniciar(x)

\* The holder completes the payment page, or is turned down there
PagarEnBancard(x) ==
    /\ banco[x] = "abierta"
    /\ \E fin \in {"aprobada", "rechazada"} : banco' = [banco EXCEPT ![x] = fin]
    /\ UNCHANGED <<tipo, pago, credito, reverso, activa, solapada, peticion>>

\* A charge to a saved card: the row is created in the transaction of the
\* request, invisible to every other one.
EmpezarCharge(p, x) == Nuevo(x) /\ Empezar(p, "charge", x, "nada")

\* bancard_pagar_con_tarjeta
PagarConTarjeta(p, x) ==
    /\ tipo[x] = "TARJETA"
    /\ activa[x]
    /\ EmpezarCharge(p, x)

\* bancard_pagar_almuerzo_con_tarjeta
PagarAlmuerzoConTarjeta(p, x) == tipo[x] = "ALMUERZO" /\ EmpezarCharge(p, x)

\* bancard_pagar_cc_con_tarjeta
PagarCCConTarjeta(p, x) == tipo[x] = "CC" /\ EmpezarCharge(p, x)

\* pagar_con_token: the answer, and what became of the operation
RespuestaCharge ==
    {<<"00", "aprobada">>, <<"rechazo", "rechazada">>, <<"3ds", "abierta">>}
    \cup ({"sinRespuesta"} \X {"sinOperacion", "aprobada", "rechazada"})

LlamarCharge(p, x) ==
    /\ Espera(p, {"charge"}, x)
    /\ \E r \in RespuestaCharge :
          /\ Aprender(p, r[1])
          /\ banco' = [banco EXCEPT ![x] = r[2]]
    /\ UNCHANGED <<tipo, pago, credito, reverso, activa, solapada>>

\* _resolver_respuesta_charge, and the commit that shows the row
ResolverCharge(p, x) ==
    /\ Resuelve(p, {"charge"}, x)
    /\ \/ peticion[p].sabe = "sinRespuesta" /\ Escribir(x, EstadoFallido)
       \/ peticion[p].sabe = "3ds" /\ Escribir(x, "PENDIENTE")
       \/ /\ peticion[p].sabe \in {"00", "rechazo"}
          /\ ProcesarResultado(x, peticion[p].sabe)
    /\ Responder(p)
    /\ UNCHANGED <<tipo, banco, reverso, activa, solapada>>

-----------------------------------------------------------------------------
(* Learning the result *)

\* Bug: the state of the payment is not looked at
Conocido(x) == pago[x] # "NINGUNO"

\* The check of webhook, reconsultar and cerrar_manual
PorResolver(x) == pago[x] = "PENDIENTE"

\* Bancard notifies the result, any number of times and at any time after it
LeerWebhook(p, x) ==
    /\ PorResolver(x)
    /\ \/ banco[x] \in {"aprobada", "reversada"} /\ Empezar(p, "webhook", x, "00")
       \/ banco[x] = "rechazada" /\ Empezar(p, "webhook", x, "rechazo")

\* bancard_confirmar
AplicarWebhook(p, x) ==
    /\ Resuelve(p, {"webhook"}, x)
    /\ ProcesarResultado(x, peticion[p].sabe)
    /\ Responder(p)
    /\ UNCHANGED <<tipo, banco, reverso, activa, solapada>>

\* bancard_retorno returns early for APROBADO, RECHAZADO and ERROR only
LeerRetorno(p, x) ==
    /\ pago[x] \in {"PENDIENTE", "CANCELADO"}
    /\ Empezar(p, "retorno", x, "nada")

LeerPendiente(p, x) ==
    /\ PorResolver(x)
    /\ \E op \in {"reconsulta", "cierre"} : Empezar(p, op, x, "nada")

\* get_confirmation: a timeout, an open circuit and an operation without a
\* result are the same answer, one with no response code.
RespuestaConsulta(x) ==
    {"sinRespuesta"}
    \cup (IF banco[x] = "aprobada" THEN {"00"} ELSE {})
    \cup (IF banco[x] = "rechazada" THEN {"rechazo"} ELSE {})

Consultar(p, x) ==
    /\ Espera(p, {"retorno", "reconsulta", "cierre"}, x)
    /\ \E r \in RespuestaConsulta(x) : Aprender(p, r)
    /\ UNCHANGED <<tipo, pago, banco, credito, reverso, activa, solapada>>

\* The rest of bancard_retorno: whatever is not "00" is a rejection
AplicarRetorno(p, x) ==
    /\ Resuelve(p, {"retorno"}, x)
    /\ ProcesarResultado(x, peticion[p].sabe)
    /\ Responder(p)
    /\ UNCHANGED <<tipo, banco, reverso, activa, solapada>>

\* _reconsultar_y_resolver, and what the view does when there is no result:
\* reconsultar leaves the payment alone, cerrar_manual rejects it.
AplicarReconsulta(p, x) ==
    /\ Resuelve(p, {"reconsulta", "cierre"}, x)
    /\ \/ /\ peticion[p].sabe # "sinRespuesta"
          /\ ProcesarResultado(x, peticion[p].sabe)
       \/ /\ peticion[p].sabe = "sinRespuesta"
          /\ Escribir(x, IF peticion[p].op = "cierre" THEN "RECHAZADO" ELSE pago[x])
    /\ Responder(p)
    /\ UNCHANGED <<tipo, banco, reverso, activa, solapada>>

-----------------------------------------------------------------------------
(* Administration *)

\* bancard_pagos_reintentar reads the payment
LeerReintentar(p, x) ==
    /\ pago[x] = "ERROR"
    /\ Empezar(p, "reintento", x, "nada")

\* reintentar_acreditacion looks for a credit with the same reference
BuscarCredito(p, x) ==
    /\ Espera(p, {"reintento"}, x)
    /\ Aprender(p, IF credito[x] > 0 THEN "existe" ELSE "noExiste")
    /\ UNCHANGED <<tipo, pago, banco, credito, reverso, activa, solapada>>

\* ... links it, or credits without asking Bancard; a credit that fails again
\* leaves everything as it was, which is Caida.
AplicarReintento(p, x) ==
    /\ Resuelve(p, {"reintento"}, x)
    /\ \/ peticion[p].sabe = "existe" /\ Escribir(x, "APROBADO")
       \/ peticion[p].sabe = "noExiste" /\ Acreditable(x) /\ Acreditar(x)
    /\ Responder(p)
    /\ UNCHANGED <<tipo, banco, reverso, activa, solapada>>

LeerAnular(p, x) ==
    /\ pago[x] = "APROBADO"
    /\ Empezar(p, "anular", x, "nada")

\* rollback: Bancard undoes an approved operation once; the answer to it may
\* be lost, and an operation that is not approved cannot be undone.
LlamarRollback(p, x) ==
    /\ Espera(p, {"anular"}, x)
    /\ \/ /\ banco[x] = "aprobada"
          /\ banco' = [banco EXCEPT ![x] = "reversada"]
          /\ \E r \in {"reversado", "sinRespuesta"} : Aprender(p, r)
       \/ Aprender(p, "sinRespuesta") /\ UNCHANGED banco
    /\ UNCHANGED <<tipo, pago, credito, reverso, activa, solapada>>

\* Bug: the status of the answer is not looked at
RollbackSinMirar(respuesta) == TRUE

RollbackAceptado(respuesta) == respuesta = "reversado"

\* The rest of revertir_pago: the compensating movement.  A CC payment has no
\* card, Tarjeta.objects.get(pk=None) raises and the request is undone.
AplicarAnulacion(p, x) ==
    /\ Resuelve(p, {"anular"}, x)
    /\ \/ /\ RollbackAceptado(peticion[p].sabe)
          /\ tipo[x] # "CC"
          /\ reverso' = [reverso EXCEPT ![x] = @ + 1]
          /\ Escribir(x, "CANCELADO")
       \/ /\ ~RollbackAceptado(peticion[p].sabe)
          /\ UNCHANGED <<pago, credito, reverso>>
    /\ Responder(p)
    /\ UNCHANGED <<tipo, banco, activa, solapada>>

\* TarjetaViewSet.bloquear and activar, on the card of the payment
CambiarEstadoTarjeta(x) ==
    /\ tipo[x] = "TARJETA"
    /\ activa' = [activa EXCEPT ![x] = ~@]
    /\ UNCHANGED <<tipo, pago, banco, credito, reverso, solapada, peticion>>

\* A lost worker, a deadlock, an exception nobody catches: ATOMIC_REQUESTS
\* rolls back what the request wrote, and what Bancard did stays done.
Caida(p) ==
    /\ peticion[p] # Libre
    /\ Responder(p)
    /\ UNCHANGED <<tipo, pago, banco, credito, reverso, activa, solapada>>

-----------------------------------------------------------------------------
DePago(x) ==
    \/ IniciarTarjeta(x) \/ IniciarAlmuerzo(x) \/ IniciarCC(x)
    \/ PagarEnBancard(x)
    \/ CambiarEstadoTarjeta(x)

DePeticion(p, x) ==
    \/ PagarConTarjeta(p, x) \/ PagarAlmuerzoConTarjeta(p, x) \/ PagarCCConTarjeta(p, x)
    \/ LlamarCharge(p, x) \/ ResolverCharge(p, x)
    \/ LeerWebhook(p, x) \/ AplicarWebhook(p, x)
    \/ LeerRetorno(p, x) \/ AplicarRetorno(p, x)
    \/ LeerPendiente(p, x) \/ Consultar(p, x) \/ AplicarReconsulta(p, x)
    \/ LeerReintentar(p, x) \/ BuscarCredito(p, x) \/ AplicarReintento(p, x)
    \/ LeerAnular(p, x) \/ LlamarRollback(p, x) \/ AplicarAnulacion(p, x)

Next ==
    \/ \E x \in Pagos : DePago(x)
    \/ \E p \in Peticiones, x \in Pagos : DePeticion(p, x)
    \/ \E p \in Peticiones : Caida(p)

Spec == Init /\ [][Next]_vars

-----------------------------------------------------------------------------
(* Properties *)

\* While the requests for a payment come one after the other, replayed
\* webhooks, returns, re-queries, closings, retries, annulments and lost
\* workers in any order never credit it twice.
SinSolapeUnCredito == \A x \in Pagos : ~solapada[x] => credito[x] <= 1

\* A payment is APROBADO only with a credit behind it, even after retries,
\* failed credits and stale writers.
AprobadoTieneCredito == \A x \in Pagos : pago[x] = "APROBADO" => credito[x] >= 1

\* What is taken back from the pupil was given back to the holder: one
\* compensating movement at most, only when Bancard did the rollback and
\* only of a credit that was made, even with two concurrent annulments.
ReversoRespaldado ==
    \A x \in Pagos :
        /\ reverso[x] <= 1
        /\ reverso[x] = 1 => banco[x] = "reversada" /\ credito[x] >= 1

\* Only the retry of the administrator credits without Bancard's word: every
\* other credit has a charge at Bancard, one still standing unless another
\* request for the payment was annulling it at the same time.
CreditoConCobro ==
    [][\A x \in Pagos :
          credito'[x] > credito[x] =>
              \/ \E p \in Peticiones : AplicarReintento(p, x)
              \/ banco[x] = "aprobada"
              \/ banco[x] = "reversada" /\ solapada[x]]_vars

\* "Idempotente: si ya fue procesado no volver a acreditar"
\* (bancard_views.py): a payment is credited once.
UnSoloCredito == \A x \in Pagos : credito[x] <= 1

\* "Bancard ya cobro" (reintentar_acreditacion, bancard_service.py): whoever
\* is credited was charged.
CreditoImplicaCobro ==
    \A x \in Pagos : credito[x] > 0 => banco[x] \in {"aprobada", "reversada"}

-----------------------------------------------------------------------------
(* What the payment comes to, seen without its requests *)

EstadoIdeal ==
    [x \in Pagos |->
        CASE pago[x] = "APROBADO" -> "acreditado"
          [] pago[x] = "RECHAZADO" -> "rechazado"
          [] pago[x] = "ERROR" -> "enError"
          [] pago[x] = "CANCELADO" -> "anulado"
          [] OTHER -> "enCurso"]

DineroIdeal ==
    [x \in Pagos |->
        CASE banco[x] = "aprobada" -> "comercio"
          [] banco[x] = "reversada" -> "devuelto"
          [] OTHER -> "titular"]

SolaIdeal == [x \in Pagos |-> ~solapada[x]]

Ideal == INSTANCE PagoIdeal
    WITH estado <- EstadoIdeal, dinero <- DineroIdeal, descuento <- reverso,
         sola <- SolaIdeal

\* Requests that read early and write late, calls to Bancard whose answer is
\* lost, replays and lost workers implement the life of a payment of
\* PagoIdeal, step by step.
CicloIdeal == Ideal!Spec
=============================================================================
