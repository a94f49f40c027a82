----------------------------- MODULE Almuerzos -----------------------------
(***************************************************************************)
(* The lunch account of a pupil: one day at the canteen door               *)
(* (RegistroConsumoAlmuerzo), the running balance the first lunch of the   *)
(* day is charged to (SaldoAlmuerzo), its movements, and its top-ups.      *)
(*                                                                         *)
(* Each scan at the door is one POST with its own client_request_id, which *)
(* the offline queue may send again.  The POST looks for that id, locks    *)
(* the pupil, counts the lunches of the day and inserts.  A PUT/PATCH      *)
(* moves a row to another pupil, another day or another client_request_id. *)
(* The row of the balance is locked by everyone who moves it, except by    *)
(* the PATCH of limite_credito, which writes back the whole row it read;   *)
(* after every movement a trigger sets the balance to the sum of all.      *)
(***************************************************************************)
EXTENDS Integers, FiniteSets

CONSTANTS
    Hijos,
    Envios,      \* scans, each with its client_request_id
    HijoDe,      \* pupil of each scan
    Recargas,
    HijoDeRecarga,
    Tope,        \* bound: the ledger stays within -Tope..Tope, refunds within Tope
    MaxEdiciones,  \* bound: PUT/PATCH of lunches and of balances
    Peticiones     \* requests in progress at the same time

ASSUME AlmuerzosAssumption ==
    /\ IsFiniteSet(Envios)
    /\ HijoDe \in [Envios -> Hijos]
    /\ HijoDeRecarga \in [Recargas -> Hijos]
    /\ Tope \in Nat
    /\ MaxEdiciones \in Nat

VARIABLES
    registro,   \* row with the client_request_id of each scan
    devuelto,   \* how often the lunch was refunded
    aMano,      \* rows changed by PUT/PATCH since they were inserted
    saldo,      \* SaldoAlmuerzo.saldo_actual
    libro,      \* sum of the movements of the balance
    pisado,     \* pupils whose balance a PATCH overwrote after the last movement
    recarga,    \* RecargaSaldoAlmuerzo.estado
    creditos,   \* RECARGA movements of each top-up
    reversos,   \* AJUSTE movements that undo it
    peticion,
    ediciones   \* PUT/PATCH of lunches and of balances so far

varsRegistro == <<registro, devuelto, aMano>>
varsSaldo == <<saldo, libro, pisado>>
varsRecarga == <<recarga, creditos, reversos>>
varsPeticion == <<peticion, ediciones>>
varsAlmuerzo == <<varsRegistro, varsSaldo, varsRecarga, varsPeticion>>

-----------------------------------------------------------------------------
EstadosRegistro == {"NINGUNO", "REGISTRADO", "ANULADO"}
EstadosRecarga == {"NINGUNA", "PENDIENTE", "CONFIRMADA", "ANULADA"}

\* hoy: fecha_consumo is the day that is modelled
Registro == [estado : EstadosRegistro, cobrado : BOOLEAN, hijo : Hijos, hoy : BOOLEAN]

SinRegistro(e) ==
    [estado |-> "NINGUNO", cobrado |-> FALSE, hijo |-> HijoDe[e], hoy |-> TRUE]

Libre == [op |-> "libre"]

Lecturas ==
    {Libre}
    \cup [op : {"buscada"}, envio : Envios]
    \cup [op : {"contada"}, envio : Envios, primero : BOOLEAN]
    \cup [op : {"anular"}, envio : Envios, hijo : Hijos]
    \cup [op : {"eliminar"}, envio : Envios]
    \cup [op : {"editar", "reinsertar"}, envio : Envios, fila : Registro]
    \cup [op : {"patch"}, hijo : Hijos, saldo : Int]
    \cup [op : {"confirmar", "anularRecarga"}, recarga : Recargas]

TypeOK ==
    /\ registro \in [Envios -> Registro]
    /\ devuelto \in [Envios -> Nat]
    /\ aMano \subseteq Envios
    /\ saldo \in [Hijos -> Int]
    /\ libro \in [Hijos -> Int]
    /\ pisado \subseteq Hijos
    /\ recarga \in [Recargas -> EstadosRecarga]
    /\ creditos \in [Recargas -> Nat]
    /\ reversos \in [Recargas -> Nat]
    /\ peticion \in [Peticiones -> Lecturas]
    /\ ediciones \in 0 .. MaxEdiciones

InitAlmuerzos ==
    /\ registro = [e \in Envios |-> SinRegistro(e)]
    /\ devuelto = [e \in Envios |-> 0]
    /\ aMano = {}
    /\ saldo = [h \in Hijos |-> 0]
    /\ libro = [h \in Hijos |-> 0]
    /\ pisado = {}
    /\ recarga = [r \in Recargas |-> "NINGUNA"]
    /\ creditos = [r \in Recargas |-> 0]
    /\ reversos = [r \in Recargas |-> 0]
    /\ peticion = [p \in Peticiones |-> Libre]
    /\ ediciones = 0

-----------------------------------------------------------------------------
Recordar(p, lectura) ==
    /\ peticion' = [peticion EXCEPT ![p] = lectura]
    /\ UNCHANGED ediciones

Responder(p) == Recordar(p, Libre)

\* A PUT/PATCH reads the row it is going to write back
RecordarEdicion(p, lectura) ==
    /\ ediciones < MaxEdiciones
    /\ ediciones' = ediciones + 1
    /\ peticion' = [peticion EXCEPT ![p] = lectura]

\* Bug: no trigger follows the movement
SinTrigger(h, monto) == saldo[h] + monto

\* trg_sync_saldo_almuerzo, after the movement is inserted: the sum of them all
Sincronizado(h, monto) == libro[h] + monto

\* The row of the balance is locked and changed, and the movement inserted last
Mover(h, monto) ==
    /\ libro[h] + monto \in -Tope .. Tope
    /\ libro' = [libro EXCEPT ![h] = @ + monto]
    /\ saldo' = [saldo EXCEPT ![h] = Sincronizado(h, monto)]
    /\ pisado' = pisado \ {h}

\* The lunches of pupil h today that count
DelDia(h) ==
    {e \in Envios : registro[e].hijo = h /\ registro[e].hoy /\ registro[e].estado = "REGISTRADO"}

-----------------------------------------------------------------------------
(* A scan at the door: RegistroConsumoAlmuerzoViewSet.create *)

\* perform_create: a row with this client_request_id is answered as it is, and
\* nothing changes; without one the request goes on
Recibir(p, e) ==
    /\ peticion[p] = Libre
    /\ registro[e].estado = "NINGUNO"
    /\ Recordar(p, [op |-> "buscada", envio |-> e])
    /\ UNCHANGED <<varsRegistro, varsSaldo, varsRecarga>>

\* Bug: the lunches are counted without locking the pupil
SinBloqueoDeHijo(h) == FALSE

\* The row of the pupil is locked by a request that has counted
HijoBloqueado(h) ==
    \E q \in Peticiones : peticion[q].op = "contada" /\ HijoDe[peticion[q].envio] = h

\* validar_limite_registros_diarios, under the lock of the pupil
Contar(p) ==
    /\ peticion[p].op = "buscada"
    /\ LET e == peticion[p].envio
           h == HijoDe[e]
       IN  /\ ~HijoBloqueado(h)
           /\ Cardinality(DelDia(h)) < 2
           /\ Recordar(p, [op |-> "contada", envio |-> e, primero |-> DelDia(h) = {}])
    /\ UNCHANGED <<varsRegistro, varsSaldo, varsRecarga>>

\* client_request_id is unique
IdLibre(e) == registro[e].estado = "NINGUNO"

\* The row, and for the first lunch the charge: _debitar_saldo_almuerzo
Insertar(p) ==
    /\ peticion[p].op = "contada"
    /\ LET e == peticion[p].envio
       IN  /\ IdLibre(e)
           /\ registro' = [registro EXCEPT ![e] =
                              [SinRegistro(e) EXCEPT !.estado = "REGISTRADO",
                                                     !.cobrado = peticion[p].primero]]
           /\ IF peticion[p].primero THEN Mover(HijoDe[e], -1) ELSE UNCHANGED varsSaldo
    /\ Responder(p)
    /\ UNCHANGED <<devuelto, aMano, varsRecarga>>

-----------------------------------------------------------------------------
(* Annulment, edition and deletion of a lunch *)

LeerRegistro(p, op, e) ==
    /\ peticion[p] = Libre
    /\ \/ /\ op = "anular"
          /\ registro[e].estado = "REGISTRADO"
          /\ Recordar(p, [op |-> op, envio |-> e, hijo |-> registro[e].hijo])
       \/ /\ op = "eliminar"
          /\ registro[e].estado = "ANULADO"
          /\ Recordar(p, [op |-> op, envio |-> e])
       \/ /\ op = "editar"
          /\ registro[e].estado # "NINGUNO"
          /\ RecordarEdicion(p, [op |-> op, envio |-> e, fila |-> registro[e]])
    /\ UNCHANGED <<varsRegistro, varsSaldo, varsRecarga>>

\* Bug: the charge is kept
SinDevolver(e) == FALSE

SeDevuelve(e) == registro[e].cobrado

\* anular: neither the estado nor the pupil is looked at again
AnularRegistro(p) ==
    /\ peticion[p].op = "anular"
    /\ LET e == peticion[p].envio
       IN  /\ devuelto[e] < Tope
           /\ registro' = [registro EXCEPT ![e].estado = "ANULADO"]
           /\ IF SeDevuelve(e)
              THEN /\ Mover(peticion[p].hijo, 1)
                   /\ devuelto' = [devuelto EXCEPT ![e] = @ + 1]
              ELSE UNCHANGED <<varsSaldo, devuelto>>
    /\ Responder(p)
    /\ UNCHANGED <<aMano, varsRecarga>>

\* PUT/PATCH: pupil, day and client_request_id are the caller's; estado and
\* ya_cobrado are read only, so they go back as they were read
Escrita(fila, h, hoy) == [fila EXCEPT !.hijo = h, !.hoy = hoy]

\* The row of scan e takes the client_request_id of scan d, and who has read it
\* still works on it
Sigue(e, d, lectura) ==
    IF lectura.op \in {"anular", "eliminar", "editar"} /\ lectura.envio = e
    THEN [lectura EXCEPT !.envio = d] ELSE lectura

EditarRegistro(p, d, h, hoy) ==
    /\ peticion[p].op = "editar"
    /\ LET e == peticion[p].envio
           fila == Escrita(peticion[p].fila, h, hoy)
       IN  /\ d = e \/ IdLibre(d)
           /\ registro' = [registro EXCEPT ![e] = SinRegistro(e), ![d] = fila]
           /\ devuelto' = [devuelto EXCEPT ![e] = 0, ![d] = devuelto[e]]
           /\ aMano' = IF d = e /\ fila = registro[e] THEN aMano ELSE (aMano \ {e}) \cup {d}
           /\ peticion' = [q \in Peticiones |->
                              IF q = p THEN Libre ELSE Sigue(e, d, peticion[q])]
    /\ UNCHANGED <<ediciones, varsSaldo, varsRecarga>>

\* ... and save() inserts the row again when it was deleted meanwhile, unless
\* another one has its client_request_id by now
Reinsertar(p, d, h, hoy) ==
    /\ peticion[p].op = "reinsertar"
    /\ IdLibre(d)
    /\ registro' = [registro EXCEPT ![d] = Escrita(peticion[p].fila, h, hoy)]
    /\ aMano' = aMano \cup {d}
    /\ Responder(p)
    /\ UNCHANGED <<devuelto, varsSaldo, varsRecarga>>

\* What becomes of a request that has read the row of scan e, once it is gone:
\* save(update_fields) and delete() find no row
SinFila(e, lectura) ==
    IF lectura.op = "editar" /\ lectura.envio = e
    THEN [lectura EXCEPT !.op = "reinsertar"]
    ELSE IF lectura.op \in {"anular", "eliminar"} /\ lectura.envio = e THEN Libre
    ELSE lectura

\* destroy: the client_request_id is free again; the movements stay and lose
\* their row (SET_NULL)
EliminarRegistro(p) ==
    /\ peticion[p].op = "eliminar"
    /\ LET e == peticion[p].envio
       IN  /\ registro' = [registro EXCEPT ![e] = SinRegistro(e)]
           /\ devuelto' = [devuelto EXCEPT ![e] = 0]
           /\ aMano' = aMano \ {e}
           /\ peticion' = [q \in Peticiones |-> SinFila(e, peticion[q])]
    /\ UNCHANGED <<ediciones, varsSaldo, varsRecarga>>

-----------------------------------------------------------------------------
(* Top-ups and corrections of the balance *)

\* Bug: a state outside the list
EstadoFueraDeLista == "PAGADA"

Acreditada == "CONFIRMADA"

\* RecargaSaldoAlmuerzoViewSet.create: paid at the counter or on account
Recargar(r) ==
    /\ recarga[r] = "NINGUNA"
    /\ recarga' = [recarga EXCEPT ![r] = Acreditada]
    /\ creditos' = [creditos EXCEPT ![r] = @ + 1]
    /\ Mover(HijoDeRecarga[r], 1)
    /\ UNCHANGED <<varsRegistro, reversos, varsPeticion>>

\* ... or by transfer, to be confirmed
CrearPendiente(r) ==
    /\ recarga[r] = "NINGUNA"
    /\ recarga' = [recarga EXCEPT ![r] = "PENDIENTE"]
    /\ UNCHANGED <<varsRegistro, varsSaldo, creditos, reversos, varsPeticion>>

\* get_object() of an endpoint of a top-up that must be in this estado
LeerRecarga(p, op, r, estado) ==
    /\ peticion[p] = Libre
    /\ recarga[r] = estado
    /\ Recordar(p, [op |-> op, recarga |-> r])
    /\ UNCHANGED <<varsRegistro, varsSaldo, varsRecarga>>

\* RecargaSaldoAlmuerzoViewSet.confirmar
LeerConfirmar(p, r) == LeerRecarga(p, "confirmar", r, "PENDIENTE")

\* confirmar_recarga: locked, and not looked at again
ConfirmarRecarga(p) ==
    /\ peticion[p].op = "confirmar"
    /\ LET r == peticion[p].recarga
       IN  /\ recarga' = [recarga EXCEPT ![r] = Acreditada]
           /\ creditos' = [creditos EXCEPT ![r] = @ + 1]
           /\ Mover(HijoDeRecarga[r], 1)
    /\ Responder(p)
    /\ UNCHANGED <<varsRegistro, reversos>>

\* RecargaSaldoAlmuerzoViewSet.anular; the service has the check
LeerAnularRecarga(p, r) == LeerRecarga(p, "anularRecarga", r, "CONFIRMADA")

\* Bug: only the unlocked check is made
SinVolverAMirar(r) == TRUE

SigueConfirmada(r) == recarga[r] = "CONFIRMADA"

\* anular_recarga_almuerzo: locked and looked at again
AnularRecarga(p) ==
    /\ peticion[p].op = "anularRecarga"
    /\ LET r == peticion[p].recarga
       IN  /\ SigueConfirmada(r)
           /\ recarga' = [recarga EXCEPT ![r] = "ANULADA"]
           /\ reversos' = [reversos EXCEPT ![r] = @ + 1]
           /\ Mover(HijoDeRecarga[r], -1)
    /\ Responder(p)
    /\ UNCHANGED <<varsRegistro, creditos>>

\* AlmuerzoService.ajustar_saldo, CierreCuentaService on the lunch balance
AjustarSaldo(h, monto) ==
    /\ Mover(h, monto)
    /\ UNCHANGED <<varsRegistro, varsRecarga, varsPeticion>>

LeerPatch(p, h) ==
    /\ peticion[p] = Libre
    /\ RecordarEdicion(p, [op |-> "patch", hijo |-> h, saldo |-> saldo[h]])
    /\ UNCHANGED <<varsRegistro, varsSaldo, varsRecarga>>

\* PATCH of limite_credito: saldo_actual is written back as it was read
GuardarPatch(p) ==
    /\ peticion[p].op = "patch"
    /\ LET h == peticion[p].hijo
       IN  /\ saldo' = [saldo EXCEPT ![h] = peticion[p].saldo]
           /\ pisado' = IF saldo[h] = peticion[p].saldo THEN pisado ELSE pisado \cup {h}
    /\ Responder(p)
    /\ UNCHANGED <<varsRegistro, libro, varsRecarga>>

\* No subscription, a card that is not ACTIVA, a second lunch too soon, a third;
\* an exception, a broken constraint or a lost worker: rolled back
Deshacer(p) ==
    /\ peticion[p] # Libre
    /\ Responder(p)
    /\ UNCHANGED <<varsRegistro, varsSaldo, varsRecarga>>

-----------------------------------------------------------------------------
DePeticion(p) ==
    \/ \E e \in Envios :
          \/ Recibir(p, e)
          \/ \E op \in {"anular", "eliminar", "editar"} : LeerRegistro(p, op, e)
    \/ Contar(p)
    \/ Insertar(p)
    \/ AnularRegistro(p)
    \/ \E d \in Envios, h \in Hijos, hoy \in BOOLEAN :
          EditarRegistro(p, d, h, hoy) \/ Reinsertar(p, d, h, hoy)
    \/ EliminarRegistro(p)
    \/ \E r \in Recargas : LeerConfirmar(p, r) \/ LeerAnularRecarga(p, r)
    \/ ConfirmarRecarga(p)
    \/ AnularRecarga(p)
    \/ \E h \in Hijos : LeerPatch(p, h)
    \/ GuardarPatch(p)
    \/ Deshacer(p)

NextAlmuerzos ==
    \/ \E p \in Peticiones : DePeticion(p)
    \/ \E r \in Recargas : Recargar(r) \/ CrearPendiente(r)
    \/ \E h \in Hijos, monto \in {-1, 1} : AjustarSaldo(h, monto)

SpecAlmuerzos == InitAlmuerzos /\ [][NextAlmuerzos]_varsAlmuerzo

-----------------------------------------------------------------------------
(* Properties *)

\* Of the lunches of a pupil in a day at most two count and at most one of them
\* is charged, however many scans, retries of scans and edits overlap: rows that
\* a PUT/PATCH has changed apart, which may have come from another pupil, another
\* day or from ANULADO without anybody counting them.
UnCobroPorDia ==
    \A h \in Hijos :
        LET escaneados == DelDia(h) \ aMano
        IN  /\ Cardinality(escaneados) <= 2
            /\ Cardinality({e \in escaneados : registro[e].cobrado}) <= 1

\* A charged lunch is refunded when it is annulled, and only then
AnuladoDevuelto ==
    \A e \in Envios \ aMano :
        devuelto[e] > 0 <=> registro[e].estado = "ANULADO" /\ registro[e].cobrado

\* A top-up is undone at most as often as it was credited, and one that stands
\* has a credit nobody has undone, whatever stale confirmations and annulments
\* of it run at once.
RecargaRespaldada ==
    \A r \in Recargas :
        /\ reversos[r] <= creditos[r]
        /\ recarga[r] = "CONFIRMADA" => reversos[r] < creditos[r]
        /\ recarga[r] \in {"NINGUNA", "PENDIENTE"} => creditos[r] = 0

\* What was taken or given is undone when its row says so, and only then
DeshechoRespaldado == AnuladoDevuelto /\ RecargaRespaldada

\* The balance is the sum of its movements.  A PATCH of the limit that writes an
\* old balance parts the two no longer than until the next movement of any kind.
SoloPatchDescuadra == \A h \in Hijos \ pisado : saldo[h] = libro[h]
=============================================================================
